---- MODULE Spec2Model ----
(***************************************************************************)
(* Satellite channel simulator (src/src/model.js): the time-series         *)
(* generator, the CIR engine, the link budget engine and the calibration   *)
(* engine, as state machines over a model of JavaScript numbers.           *)
(***************************************************************************)
EXTENDS Integers, Sequences, FiniteSets, TLC

(***************************************************************************)
(* JavaScript numbers.  A number is NaN, +Infinity, -Infinity, or a finite *)
(* decimal floating point value m * 10^e with an 8-digit mantissa          *)
(* (10^7 <= |m| < 10^8, or m = 0 and e = 0), overflowing to an infinity    *)
(* above 1.797e308 and underflowing to 0 below 1e-324 as an IEEE double    *)
(* does.  A missing property or argument is Undefined; arithmetic turns it *)
(* into NaN.  The sign of zero is not modelled.                            *)
(***************************************************************************)
NaN == [k |-> "nan", m |-> 0, e |-> 0]
PosInf == [k |-> "inf", m |-> 1, e |-> 0]
NegInf == [k |-> "inf", m |-> -1, e |-> 0]
Undefined == [k |-> "undef", m |-> 0, e |-> 0]
Zero == [k |-> "fin", m |-> 0, e |-> 0]

AbsI(i) == IF i < 0 THEN -i ELSE i
SgnI(i) == IF i < 0 THEN -1 ELSE IF i > 0 THEN 1 ELSE 0
Pow10I(n) == <<1, 10, 100, 1000, 10000, 100000, 1000000, 10000000,
               100000000, 1000000000>>[n + 1]
RoundDiv(x, q) == SgnI(x) * ((AbsI(x) + q \div 2) \div q)

RECURSIVE Norm(_, _)
Norm(m, e) ==
    IF m = 0 THEN Zero
    ELSE IF AbsI(m) >= 100000000
         THEN Norm(SgnI(m) * ((AbsI(m) + 5) \div 10), e + 1)
    ELSE IF AbsI(m) < 10000000 THEN Norm(m * 10, e - 1)
    ELSE IF e > 301 \/ (e = 301 /\ AbsI(m) > 17976931)
         THEN (IF m > 0 THEN PosInf ELSE NegInf)
    ELSE IF e < -331 THEN Zero
    ELSE [k |-> "fin", m |-> m, e |-> e]

\* The number written m * 10^e in the source, e.g. D(9245, -2) for 92.45.
D(m, e) == Norm(m, e)
N(i) == Norm(i, 0)

ToNum(x) == IF x.k = "undef" THEN NaN ELSE x
IsNaN(x) == ToNum(x).k = "nan"
IsFinite(x) == x.k = "fin"

Neg(x) ==
    LET a == ToNum(x) IN
    IF a.k = "nan" THEN NaN ELSE [a EXCEPT !.m = -a.m]

\* a + b for finite non-zero a, b with a.e >= b.e
AddAligned(a, b) ==
    IF a.e - b.e > 9 THEN a
    ELSE Norm(a.m * 10 + RoundDiv(b.m * 10, Pow10I(a.e - b.e)), a.e - 1)

AddNum(a, b) ==
    IF a.k = "nan" \/ b.k = "nan" THEN NaN
    ELSE IF a.k = "inf"
         THEN (IF b.k = "inf" /\ b.m # a.m THEN NaN ELSE a)
    ELSE IF b.k = "inf" THEN b
    ELSE IF a.m = 0 THEN b
    ELSE IF b.m = 0 THEN a
    ELSE AddAligned(IF a.e >= b.e THEN a ELSE b,
                    IF a.e >= b.e THEN b ELSE a)

Add(x, y) == AddNum(ToNum(x), ToNum(y))

Sub(x, y) == Add(x, Neg(y))

\* the product x * y of two 8-digit mantissas as <<hi, lo>>:
\* x * y = (hi * 10^4 + lo) * 10^4 + a remainder below 10^4
MulParts(x, y) ==
    LET mid == (x \div 10000) * (y % 10000) + (x % 10000) * (y \div 10000)
               + ((x % 10000) * (y % 10000)) \div 10000
    IN  <<(x \div 10000) * (y \div 10000) + mid \div 10000, mid % 10000>>

\* sg * (hi, lo) * 10^e rounded to 8 digits
MulRound(sg, hi, lo, e) ==
    Norm(sg * (IF hi >= 10000000 THEN hi + (IF lo >= 5000 THEN 1 ELSE 0)
               ELSE hi * 10 + (lo + 500) \div 1000),
         IF hi >= 10000000 THEN e + 8 ELSE e + 7)

MulSigned(sg, parts, e) == MulRound(sg, parts[1], parts[2], e)

MulFin(a, b) ==
    MulSigned(SgnI(a.m) * SgnI(b.m), MulParts(AbsI(a.m), AbsI(b.m)), a.e + b.e)

MulNum(a, b) ==
    IF a.k = "nan" \/ b.k = "nan" THEN NaN
    ELSE IF a.k = "inf" \/ b.k = "inf"
         THEN (IF a.m = 0 \/ b.m = 0 THEN NaN
               ELSE IF SgnI(a.m) * SgnI(b.m) > 0 THEN PosInf ELSE NegInf)
    ELSE IF a.m = 0 \/ b.m = 0 THEN Zero
    ELSE MulFin(a, b)

Mul(x, y) == MulNum(ToNum(x), ToNum(y))

RECURSIVE LongDiv(_, _, _, _)
LongDiv(r, b, n, acc) ==
    IF n = 0 THEN acc
    ELSE LongDiv((r % b) * 10, b, n - 1, acc * 10 + r \div b)

\* sg * x / y * 10^e for mantissas x, y
DivFin(sg, x, y, e) ==
    Norm(sg * LongDiv(IF x < y THEN x * 10 ELSE x, y, 9, 0),
         IF x < y THEN e - 9 ELSE e - 8)

DivNum(a, b) ==
    IF a.k = "nan" \/ b.k = "nan" THEN NaN
    ELSE IF a.k = "inf"
         THEN (IF b.k = "inf" THEN NaN
               ELSE IF a.m * (IF b.m < 0 THEN -1 ELSE 1) > 0 THEN PosInf
               ELSE NegInf)
    ELSE IF b.k = "inf" THEN Zero
    ELSE IF b.m = 0
         THEN (IF a.m = 0 THEN NaN
               ELSE IF a.m > 0 THEN PosInf ELSE NegInf)
    ELSE IF a.m = 0 THEN Zero
    ELSE DivFin(SgnI(a.m) * SgnI(b.m), AbsI(a.m), AbsI(b.m), a.e - b.e)

Div(x, y) == DivNum(ToNum(x), ToNum(y))

\* The comparisons of JavaScript: every comparison with NaN is false.
IsNegative(d) == d.k # "nan" /\ d.m < 0
Lt(x, y) == IsNegative(Sub(x, y))
Gt(x, y) == Lt(y, x)
Eq(x, y) == ~IsNaN(x) /\ ~IsNaN(y) /\ ToNum(x) = ToNum(y)
Le(x, y) == Lt(x, y) \/ Eq(x, y)
Ge(x, y) == Le(y, x)

\* Math.max, Math.min, Math.abs: NaN if an argument is NaN.
MathMax(x, y) ==
    IF IsNaN(x) \/ IsNaN(y) THEN NaN ELSE IF Lt(x, y) THEN y ELSE ToNum(x)
MathMin(x, y) ==
    IF IsNaN(x) \/ IsNaN(y) THEN NaN ELSE IF Lt(y, x) THEN y ELSE ToNum(x)
MathAbs(x) ==
    LET a == ToNum(x) IN
    IF a.k = "nan" THEN NaN ELSE [a EXCEPT !.m = AbsI(a.m)]

\* x || d and the default of a destructured property.
Truthy(x) == ~(x.k \in {"undef", "nan"} \/ (x.k = "fin" /\ x.m = 0))
OrElse(x, d) == IF Truthy(x) THEN x ELSE d
Default(x, d) == IF x.k = "undef" THEN d ELSE x

\* e, evaluated after v: JavaScript evaluates a statement's operands before
\* the statements that use them.
Strict(v, e) == IF v = v THEN e ELSE e

(***************************************************************************)
(* The Math library.  Series are evaluated in fixed point (8 decimals) on  *)
(* a reduced argument; results agree with the IEEE functions to about 7    *)
(* significant digits.                                                     *)
(***************************************************************************)
FxMul(a, b) ==
    LET a1 == a \div 10000
        a0 == a % 10000
        b1 == b \div 10000
        b0 == b % 10000
    IN  a1 * b1 + (a1 * b0 + a0 * b1 + (a0 * b0) \div 10000) \div 10000

\* round(x * 10^8) for a finite |x| < 21
ToFx(x) ==
    IF x.e + 8 >= 0 THEN x.m * Pow10I(x.e + 8)
    ELSE IF -(x.e + 8) > 9 THEN 0
    ELSE RoundDiv(x.m, Pow10I(-(x.e + 8)))

\* floor(x) for a finite |x| < 10^9
FloorInt(x) ==
    IF x.e >= 0 THEN x.m * Pow10I(x.e)
    ELSE IF -x.e > 9 THEN (IF x.m < 0 THEN -1 ELSE 0)
    ELSE x.m \div Pow10I(-x.e)

\* log10 of the digits 1..9, in fixed point
Log10Tab == <<0, 30103000, 47712125, 60205999, 69897000, 77815125,
              84509804, 90308999, 95424251>>

\* c[i] + t (c[i+1] + t (... + t c[n])) in fixed point
RECURSIVE Horner(_, _, _)
Horner(t, c, i) ==
    IF i = Len(c) THEN c[i] ELSE c[i] + FxMul(t, Horner(t, c, i + 1))

\* 1/(2i-1) for i = 1..8, in fixed point
AtanhCoeffs == <<100000000, 33333333, 20000000, 14285714, 11111111, 9090909,
                 7692308, 6666667>>

\* 2 atanh(z) in fixed point
AtanhSeries(z) == 2 * FxMul(z, Horner(FxMul(z, z), AtanhCoeffs, 1))

\* ln(w) in fixed point for a finite 1 <= w < 2: 2 atanh((w-1)/(w+1))
LnKernel(w) == AtanhSeries(ToFx(Div(Sub(w, N(1)), Add(w, N(1)))))

\* Math.log10
Log10(x) ==
    LET a == ToNum(x) IN
    IF a.k = "nan" THEN NaN
    ELSE IF a.m < 0 THEN NaN
    ELSE IF a.k = "inf" THEN PosInf
    ELSE IF a.m = 0 THEN NegInf
    ELSE LET d == a.m \div 10000000
             w == Div([k |-> "fin", m |-> a.m, e |-> -7], N(d))
             frac == Log10Tab[d] + FxMul(LnKernel(w), 43429448)
         IN  Add(N(a.e + 7), Norm(frac, -8))

\* 10^(d/10) for d = 0..9, in fixed point
Exp10Tab == <<100000000, 125892541, 158489319, 199526231, 251188643,
              316227766, 398107171, 501187234, 630957344, 794328235>>

\* 1 + v/n (1 + v/(n+1) (... (1 + v/7))) in fixed point
RECURSIVE ExpSeries(_, _)
ExpSeries(v, n) ==
    IF n = 7 THEN 100000000 + v \div 7
    ELSE 100000000 + FxMul(v, ExpSeries(v, n + 1)) \div n

\* 10^(d/10) * e^(g ln 10) for the digit d and the rest g of the exponent
Exp10Split(d, g) ==
    FxMul(Exp10Tab[d + 1], ExpSeries(FxMul(g, 230258509), 1))

\* 10^f in fixed point for a fixed point 0 <= f <= 1
Exp10Digit(f) == IF f >= 100000000 THEN 9 ELSE f \div 10000000
Exp10Kernel(f) == Exp10Split(Exp10Digit(f), f - Exp10Digit(f) * 10000000)

\* Math.pow(10, x)
Exp10(x) ==
    LET a == ToNum(x) IN
    IF a.k = "nan" THEN NaN
    ELSE IF a.k = "inf" THEN (IF a.m > 0 THEN PosInf ELSE Zero)
    ELSE IF a.m > 0 /\ a.e >= -4 THEN PosInf
    ELSE IF a.m < 0 /\ a.e >= -4 THEN Zero
    ELSE LET n == FloorInt(a)
             f == ToFx(Sub(a, N(n)))
         IN  Norm(Exp10Kernel(f), n - 8)

IsSmallInt(y) ==
    y.k = "fin" /\ y.e = -7 /\ y.m \in {10000000, 20000000, 30000000, 40000000}

RECURSIVE IntPow(_, _)
IntPow(x, n) == IF n = 1 THEN x ELSE Mul(x, IntPow(x, n - 1))

\* Math.pow(x, y)
Pow(x, y) ==
    LET a == ToNum(x)
        b == ToNum(y)
    IN  IF b.k = "fin" /\ b.m = 0 THEN N(1)
        ELSE IF a.k = "nan" \/ b.k = "nan" THEN NaN
        ELSE IF IsSmallInt(b) THEN IntPow(a, FloorInt(b))
        ELSE IF a.m < 0 THEN NaN
        ELSE IF a.k = "fin" /\ a.m = 0
             THEN (IF b.m > 0 THEN Zero ELSE PosInf)
        ELSE Exp10(Mul(b, Log10(a)))

\* Math.sqrt
Sqrt(x) ==
    LET a == ToNum(x) IN
    IF a.k = "fin" /\ a.m = 0 THEN Zero
    ELSE Exp10(Mul(D(5, -1), Log10(a)))

\* Math.log2
Log2(x) == Div(Log10(x), D(30103000, -8))

Pi == D(31415927, -7)

\* 1 - t/d[i] (1 - t/d[i+1] (... (1 - t/d[n]))) in fixed point
RECURSIVE TrigSeries(_, _, _)
TrigSeries(t, d, i) ==
    IF i = Len(d) THEN 100000000 - t \div d[i]
    ELSE 100000000 - FxMul(t, TrigSeries(t, d, i + 1)) \div d[i]

\* sin and cos in fixed point of a fixed point angle 0 <= a <= pi/4
SinKernel(a) == FxMul(a, TrigSeries(FxMul(a, a), <<6, 20, 42, 72, 110>>, 1))
CosKernel(a) == TrigSeries(FxMul(a, a), <<2, 12, 30, 56, 90>>, 1)

\* <<sin, cos>> of the angle in quadrant q from the sin s and cos c of its
\* rest
SinCosTurn(q, s, c) ==
    CASE q = 0 -> <<s, c>>
      [] q = 1 -> <<c, -s>>
      [] q = 2 -> <<-s, -c>>
      [] OTHER -> <<-c, s>>

\* the rest th (0 <= th < pi/2) of the angle, reflected into 0..pi/4
SinCosRest(q, th) ==
    IF th <= 78539816
    THEN SinCosTurn(q, SinKernel(th), CosKernel(th))
    ELSE SinCosTurn(q, CosKernel(157079633 - th), SinKernel(157079633 - th))

\* frac is the fraction of a turn, in fixed point
SinCosFrac(frac) ==
    IF frac >= 100000000 THEN SinCosRest(0, 0)
    ELSE SinCosRest((frac * 4) \div 100000000,
                    FxMul((frac * 4) % 100000000, 157079633))

\* the whole turns are dropped (an angle of 10^9 turns or more has no
\* fraction left in 8 digits)
SinCosTurns(turns) ==
    SinCosFrac(ToFx(Sub(turns, IF turns.e >= 2 THEN turns
                                ELSE N(FloorInt(turns)))))

\* <<sin, cos>> in fixed point of a finite angle x (radians), |x| >= 0.001
SinCosFx(x) == SinCosTurns(Div(x, D(62831853, -7)))

\* |a| < 0.001 for a finite a
IsTiny(a) == a.m = 0 \/ a.e <= -11

\* Math.sin
Sin(x) ==
    LET a == ToNum(x) IN
    IF a.k # "fin" THEN NaN
    ELSE IF IsTiny(a)
         THEN Mul(a, Sub(N(1), Div(Mul(a, a), N(6))))
    ELSE Norm(SinCosFx(a)[1], -8)

\* Math.cos
Cos(x) ==
    LET a == ToNum(x) IN
    IF a.k # "fin" THEN NaN
    ELSE IF IsTiny(a) THEN Sub(N(1), Div(Mul(a, a), N(2)))
    ELSE Norm(SinCosFx(a)[2], -8)

\* Math.tan
Tan(x) == Div(Sin(x), Cos(x))


(***************************************************************************)
(* Parameter objects.  A LinkParams object is a record holding every       *)
(* property the code reads; a property the caller did not set is Undefined *)
(* (env: "undefined"; flags: FALSE).                                       *)
(***************************************************************************)
NoParams ==
    [freq |-> Undefined, rainRate |-> Undefined, elevation |-> Undefined,
     env |-> "undefined", tec |-> Undefined, xpdAnt |-> Undefined,
     correctionFactor |-> Undefined, slantRange |-> Undefined,
     hpbw |-> Undefined, simTime |-> Undefined, isPhasedArray |-> FALSE,
     disableFastFading |-> FALSE, gasAttenOffset_dB |-> Undefined,
     scatterPowerOffset_dB |-> Undefined, bandwidth |-> Undefined,
     eirp |-> Undefined, gRx |-> Undefined, tRx |-> Undefined]

\* RAIN_COEFFS in the order Object.entries enumerates it: the integer-like
\* keys 12, 30, 40, 50 ascending, then the key "2.2".
RAIN_COEFFS ==
    <<[f |-> N(12), k |-> D(18, -3), alpha |-> D(115, -2)],
      [f |-> N(30), k |-> D(187, -3), alpha |-> D(1021, -3)],
      [f |-> N(40), k |-> D(35, -2), alpha |-> D(93, -2)],
      [f |-> N(50), k |-> D(55, -2), alpha |-> D(88, -2)],
      [f |-> D(22, -1), k |-> D(2, -4), alpha |-> D(95, -2)]>>

\* The nearest-frequency scan: best is <<minDiff, k, alpha>> so far.
RECURSIVE RainScan(_, _, _)
\* if (diff < minDiff) { minDiff = diff; k = c.k; alpha = c.alpha; }
RainPick(freq, i, best, c, diff) ==
    IF Lt(diff, best[1])
    THEN RainScan(freq, i + 1, <<diff, c.k, c.alpha>>)
    ELSE RainScan(freq, i + 1, best)

RainEntry(freq, i, best, c) ==
    RainPick(freq, i, best, c, MathAbs(Sub(c.f, freq)))

RainScan(freq, i, best) ==
    IF i > 5 THEN best ELSE RainEntry(freq, i, best, RAIN_COEFFS[i])

RainCoeff(freq) ==
    LET best == RainScan(freq, 1, <<N(100), D(18, -3), D(115, -2)>>)
    IN  [k |-> best[2], alpha |-> best[3]]

ZenithGas(freq) ==
    IF Lt(freq, N(10)) THEN D(5, -2)
    ELSE IF Lt(freq, N(20)) THEN D(2, -1)
    ELSE IF Lt(freq, N(35)) THEN D(3, -1)
    ELSE IF Lt(freq, N(50)) THEN D(8, -1)
    ELSE N(4)

DegToRad(x) == Div(Mul(x, Pi), N(180))

\* getSoSFade: the deterministic sum-of-sinusoids oscillator
SoSF == <<D(11, -2), D(23, -2), D(37, -2), D(53, -2), D(79, -2)>>
SoSPhi == <<D(1, -1), D(12, -1), D(23, -1), D(34, -1), D(45, -1)>>

RECURSIVE SoSSum(_, _)
SoSSum(t, i) ==
    IF i > 5 THEN Zero
    ELSE Add(Cos(Add(Mul(Mul(Mul(N(2), Pi), SoSF[i]), t), SoSPhi[i])),
             SoSSum(t, i + 1))

getSoSFade(t) ==
    IF t.k = "undef" \/ (t.k = "fin" /\ t.m = 0) THEN Zero
    ELSE Div(SoSSum(t, 1), D(1581, -3))


(***************************************************************************)
(* calculateLinkBudget(params), statement by statement.  The constants of  *)
(* the function body are computed in steps; each step takes the record s   *)
(* of the constants computed so far (the argument is its field params) and *)
(* adds its own.                                                           *)
(***************************************************************************)
\* trueElev, refractionCorrection; the rain coefficients nearest to freq
lbRefraction(params) ==
    LET trueElev == MathMax(Zero, params.elevation)
    IN  [params |-> params,
         rainCoeff |-> RainCoeff(params.freq),
         refractionCorrection |->
            Div(Div(D(102, -2),
                    Tan(DegToRad(Add(trueElev,
                                     Div(D(103, -1), Add(trueElev, D(511, -2))))))),
                N(60))]

\* the constants that depend on the apparent elevation (effElev)
lbGeometry(s) ==
    Strict(s,
    LET params == s.params
        freq == params.freq
        hpbw == Default(params.hpbw, N(2))
        slantRange == Default(params.slantRange, N(35786))
        apparentElevation == Add(params.elevation, s.refractionCorrection)
        elevRadP == Mul(apparentElevation, Div(Pi, N(180)))
        phaseTerm ==
            Div(Mul(Mul(Mul(Mul(N(2), Pi), N(15)), MathAbs(Sin(elevRadP))), freq),
                D(299792458, -9))
        g_mp == MathMax(D(1, -2), Mul(N(4), Pow(Sin(phaseTerm), N(2))))
        scanAngleRad == Mul(Sub(N(90), apparentElevation), Div(Pi, N(180)))
        cosScan == MathMax(D(1, -2), Cos(scanAngleRad))
    IN  [apparentElevation |-> apparentElevation,
         pointingLoss |->
            IF Gt(hpbw, Zero)
            THEN Mul(N(12), Pow(Div(s.refractionCorrection, hpbw), N(2)))
            ELSE Zero,
         sinRad |-> Sin(Div(Mul(apparentElevation, Pi), N(180))),
         multipathLoss |->
            IF params.env = "maritime" THEN Mul(N(-10), Log10(g_mp)) ELSE Zero,
         actualFspl |->
            Add(Add(Mul(N(20), Log10(slantRange)), Mul(N(20), Log10(freq))),
                D(9245, -2)),
         scanLoss |->
            IF params.isPhasedArray THEN Mul(N(-15), Log10(cosScan)) ELSE Zero,
         sinElev |->
            MathMax(D(1, -2), Sin(Div(Mul(apparentElevation, Pi), N(180))))]
        @@ s)

\* Math.sin(elevRad), the divisor of slantPath, attGas, attCloud and omegaDeg
PathDivisor(s) == s.sinRad

\* sinElev, the divisor of the scintillation sigmas, the group delay and the
\* dispersion
IonoDivisor(s) == s.sinElev

\* rain, gas and cloud attenuation, the Faraday angle, the free-space delta,
\* the environment fade and the dispersion
lbAtmosphere(s) ==
    Strict(s,
    LET params == s.params
        freq == params.freq
        env == params.env
        tec == Default(params.tec, N(50))
        correctionFactor == Default(params.correctionFactor, N(1))
        effElev == s.apparentElevation
        gamma ==
            Mul(Mul(s.rainCoeff.k, Pow(params.rainRate, s.rainCoeff.alpha)),
                correctionFactor)
        slantPath == Div(N(3), PathDivisor(s))
        rFactor == Div(N(1), Add(N(1), Mul(D(45, -3), slantPath)))
        lEff == Mul(slantPath, rFactor)
        K_l == Mul(D(2, -4), Pow(freq, D(195, -2)))
        refFspl ==
            Add(Add(Mul(N(20), Log10(N(35786))), Mul(N(20), Log10(freq))),
                D(9245, -2))
        tecVal == IF params.tec.k # "undef" THEN params.tec ELSE N(50)
        bwMHz == IF params.bandwidth.k # "undef" THEN params.bandwidth ELSE N(400)
    IN  [attRain |-> Mul(gamma, lEff),
         attGas |-> Div(ZenithGas(freq), PathDivisor(s)),
         attCloud |-> Div(Mul(D(5, -1), K_l), PathDivisor(s)),
         omegaDeg |-> Div(Mul(N(108), tec), Mul(Pow(freq, N(2)), PathDivisor(s))),
         fadeLMS |->
            IF env = "urban" THEN Sub(N(15), Mul(effElev, D(15, -2)))
            ELSE IF env = "suburban" THEN Sub(N(6), Mul(effElev, D(5, -2)))
            ELSE IF env = "maritime" THEN Zero
            ELSE D(5, -1),
         deltaFspl |-> Sub(s.actualFspl, refFspl),
         sinElevPow |-> Pow(IonoDivisor(s), D(12, -1)),
         groupDelayNs |->
            Div(Mul(N(134), tecVal), Mul(Mul(freq, freq), IonoDivisor(s))),
         dispersionNs |->
            Div(Mul(Mul(Mul(N(2), N(134)), tecVal), Div(bwMHz, N(1000))),
                Mul(Pow(freq, N(3)), IonoDivisor(s)))]
        @@ s)

\* the total atmospheric loss, the Faraday rotation, the rain XPD and the
\* scintillation deviations
lbFaraday(s) ==
    Strict(s,
    LET params == s.params
        freq == params.freq
        omegaRad == Div(Mul(s.omegaDeg, Pi), N(180))
    IN  [totalAtmosphericLoss |->
            Add(Add(Add(s.attRain, s.attGas), s.attCloud),
                OrElse(params.gasAttenOffset_dB, Zero)),
         cosOmega |-> MathAbs(Cos(omegaRad)),
         tanOmega |-> MathAbs(Tan(omegaRad)),
         xpdRain |->
            IF Gt(s.attRain, D(1, -1))
            THEN Sub(Mul(N(30), Log10(freq)), Mul(N(20), Log10(s.attRain)))
            ELSE N(40),
         sigmaTropo |-> Div(Mul(D(25, -3), Pow(freq, D(58, -2))), s.sinElevPow),
         sigmaIono |->
            Div(Mul(Div(OrElse(params.tec, N(50)), N(100)),
                    Div(N(2), Pow(freq, D(15, -1)))),
                s.sinElevPow),
         maxSymbolRateMbaud |->
            IF Gt(s.dispersionNs, D(1, -3))
            THEN Div(N(1000), Mul(N(2), s.dispersionNs))
            ELSE N(999999)]
        @@ s)

\* the Faraday loss, the composite XPD, the scintillation sigma and the sky
\* noise temperature
lbPolarization(s) ==
    Strict(s,
    LET xpdAnt == Default(s.params.xpdAnt, N(35))
        xpdFaraday ==
            IF Gt(s.tanOmega, D(1, -4)) THEN Mul(N(-20), Log10(s.tanOmega))
            ELSE N(40)
        xpdAntPower == Pow(N(10), Div(Neg(xpdAnt), N(10)))
        crossPowRain == Pow(N(10), Div(Neg(s.xpdRain), N(10)))
        crossPowFaraday == Pow(N(10), Div(Neg(xpdFaraday), N(10)))
        xpd == Mul(N(-10),
                   Log10(Add(Add(crossPowRain, crossPowFaraday), xpdAntPower)))
    IN  [lossFaraday |->
            IF Gt(s.cosOmega, D(1, -3)) THEN Mul(N(-20), Log10(s.cosOmega))
            ELSE N(60),
         xpd |-> MathMax(Zero, MathMin(N(40), xpd)),
         scintillationSigma |->
            Sqrt(Add(Mul(s.sigmaTropo, s.sigmaTropo),
                     Mul(s.sigmaIono, s.sigmaIono))),
         tSky |->
            Mul(N(290),
                Sub(N(1), Pow(N(10), Div(Neg(s.totalAtmosphericLoss), N(10)))))]
        @@ s)

\* the fast fading of the sum-of-sinusoids oscillator
\* a mutation: the oscillator is applied whatever disableFastFading says
lbFadingAlways(s) ==
    Strict(s,
    [scintLoss |->
        Mul(getSoSFade(Default(s.params.simTime, Zero)), s.scintillationSigma)]
    @@ s)

lbFading(s) ==
    Strict(s,
    LET simTime == Default(s.params.simTime, Zero)
    IN  [scintLoss |->
            IF Truthy(simTime) /\ ~s.params.disableFastFading
            THEN Mul(getSoSFade(simTime), s.scintillationSigma)
            ELSE Zero]
        @@ s)

\* totalLoss and the returned object
lbResult(s) ==
    Strict(s,
    [attRain |-> s.attRain, attGas |-> s.attGas, attCloud |-> s.attCloud,
     fadeLMS |-> s.fadeLMS, lossFaraday |-> s.lossFaraday,
     omegaDeg |-> s.omegaDeg,
     totalLoss |->
        Add(Add(Add(Add(Add(Add(Add(s.totalAtmosphericLoss, s.fadeLMS),
            s.lossFaraday), s.deltaFspl), s.pointingLoss), s.scanLoss),
            s.multipathLoss), s.scintLoss),
     xpd |-> s.xpd,
     actualFspl |-> s.actualFspl, deltaFspl |-> s.deltaFspl,
     apparentElevation |-> s.apparentElevation,
     refractionCorrection |-> s.refractionCorrection,
     pointingLoss |-> s.pointingLoss, scanLoss |-> s.scanLoss,
     multipathLoss |-> s.multipathLoss, tSky |-> s.tSky,
     totalAtmosphericLoss |-> s.totalAtmosphericLoss,
     scintLoss |-> s.scintLoss, scintillationSigma |-> s.scintillationSigma,
     groupDelayNs |-> s.groupDelayNs, dispersionNs |-> s.dispersionNs,
     maxSymbolRateMbaud |-> s.maxSymbolRateMbaud])

calculateLinkBudget(params) ==
    lbResult(lbFading(lbPolarization(lbFaraday(lbAtmosphere(lbGeometry(
        lbRefraction(params)))))))


\* calculateMIMOCapacity(snrDb, xpdDb)
mimoSinr(pSig, crosstalkPower) ==
    Div(pSig, Add(N(1), Mul(pSig, crosstalkPower)))

mimoCapacity(snr, crosstalkPower) ==
    [capRank2 |->
        Mul(N(2), Log2(Add(N(1), mimoSinr(Div(snr, N(2)), crosstalkPower)))),
     capRank1 |-> Log2(Add(N(1), snr))]

calculateMIMOCapacity(snrDb, xpdDb) ==
    mimoCapacity(Pow(N(10), Div(snrDb, N(10))),
                 Pow(N(10), Div(Neg(xpdDb), N(10))))

(***************************************************************************)
(* computeCIR: the tapped-delay-line channel impulse response.             *)
(***************************************************************************)
C_M_S == N(299792458)

\* the two scatter components of an urban / suburban environment
ScatterParams(env) ==
    IF env = "urban"
    THEN <<[delay |-> N(100), power |-> N(-15), label |-> "building scatter near"],
           [delay |-> N(300), power |-> N(-22), label |-> "building scatter far"]>>
    ELSE <<[delay |-> N(80), power |-> N(-18), label |-> "vegetation scatter near"],
           [delay |-> N(200), power |-> N(-25), label |-> "vegetation scatter far"]>>

\* taps.reduce((s, t) => s + w(t), 0) for the three weighted sums
RECURSIVE TapSum(_, _, _)
TapSum(taps, n, pw) ==
    IF n = 0 THEN Zero
    ELSE LET t == taps[n]
             a == t.amplitude_linear
             w == IF pw = 0 THEN Mul(a, a)
                  ELSE IF pw = 1 THEN Mul(Mul(t.excessDelay_ns, a), a)
                  ELSE Mul(Mul(Mul(t.excessDelay_ns, t.excessDelay_ns), a), a)
         IN  Add(TapSum(taps, n - 1, pw), w)

\* a mutation: tap indices are counted from 1
TapIndexOneBased(taps) == Len(taps) + 1

\* index: taps.length
TapIndex(taps) == Len(taps)

\* a mutation: the ionospheric tap uses the link budget's 0.001 ns threshold
IonoTapPresentLowThreshold(dispersionNs) == Gt(dispersionNs, D(1, -3))

\* if (dispersionNs > 0.01)
IonoTapPresent(dispersionNs) == Gt(dispersionNs, D(1, -2))

\* the dispersion computeCIR compares with the 0.01 ns threshold
cirDispersionNs(params) ==
    LET tecVal == OrElse(Default(params.tec, N(50)), N(50))
        sinElev == Sin(Div(Mul(MathMax(D(1, -1), params.elevation), Pi), N(180)))
    IN  Div(Mul(Mul(Mul(N(2), N(134)), tecVal), D(4, -1)),
            Mul(Pow(params.freq, N(3)), sinElev))

\* computeCIR(params), statement by statement; each step takes the record s
\* of the constants computed so far and adds its own.
\* sinElev, the LOS delay, the free-space loss, the rain coefficients
cirGeometry(params) ==
    [params |-> params,
     sinElev |-> Sin(Div(Mul(MathMax(D(1, -1), params.elevation), Pi), N(180))),
     losDelay_ns |-> Mul(Div(Mul(params.slantRange, N(1000)), C_M_S), D(1, 9)),
     absoluteFspl |->
        Add(Add(Mul(N(20), Log10(params.slantRange)),
                Mul(N(20), Log10(params.freq))),
            D(9245, -2)),
     rainCoeff |-> RainCoeff(params.freq),
     dispersionNs |-> cirDispersionNs(params)]

\* attRain, attGas, attCloud and their sum
cirAtmosphere(s) ==
    Strict(s,
    LET freq == s.params.freq
        rainRate == Default(s.params.rainRate, Zero)
        correctionFactor == Default(s.params.correctionFactor, N(1))
        gamma ==
            Mul(Mul(s.rainCoeff.k, Pow(rainRate, s.rainCoeff.alpha)),
                correctionFactor)
        slantPath == Div(N(3), s.sinElev)
        rFactor == Div(N(1), Add(N(1), Mul(D(45, -3), slantPath)))
        attRain == Mul(Mul(gamma, slantPath), rFactor)
        attGas == Div(ZenithGas(freq), s.sinElev)
        K_l == Mul(D(2, -4), Pow(freq, D(195, -2)))
        attCloud == Div(Mul(D(5, -1), K_l), s.sinElev)
    IN  [totalAtmLoss |-> Add(Add(attRain, attGas), attCloud)] @@ s)

\* tap 0, the line of sight
cirLosTap(s) ==
    Strict(s,
    LET losAmplitude_dB == Neg(Add(s.absoluteFspl, s.totalAtmLoss))
    IN  [losAmplitude_dB |-> losAmplitude_dB,
         taps |->
            <<[index |-> 0, label |-> "LOS", delay_ns |-> s.losDelay_ns,
               excessDelay_ns |-> Zero,
               amplitude_linear |-> Pow(N(10), Div(losAmplitude_dB, N(20))),
               amplitude_dB |-> losAmplitude_dB, phase_rad |-> Zero]>>] @@ s)

\* a mutation: every link that is not over built-up or vegetated land gets
\* the sea reflection
HasSeaReflectionOffLand(env) == env \notin {"urban", "suburban"}

\* if (env === 'maritime')
HasSeaReflection(env) == env = "maritime"

\* the sea-surface reflection of a maritime link
cirSeaTap(s) ==
    Strict(s,
    LET seaExcess == Mul(Div(Mul(Mul(N(2), N(15)), s.sinElev), C_M_S), D(1, 9))
        reflAmplitude == Mul(s.taps[1].amplitude_linear, MathAbs(D(-85, -2)))
    IN  IF HasSeaReflection(s.params.env)
        THEN [s EXCEPT !.taps =
                Append(@, [index |-> 1, label |-> "sea reflection",
                           delay_ns |-> Add(s.losDelay_ns, seaExcess),
                           excessDelay_ns |-> seaExcess,
                           amplitude_linear |-> reflAmplitude,
                           amplitude_dB |-> Mul(N(20), Log10(reflAmplitude)),
                           phase_rad |-> Pi])]
        ELSE s)

\* the tap of scatterParams[i]
\* a mutation: the scatter taps are shifted by scatterPowerOffset_dB
ScatterTapWithOffset(s, sp, i) ==
    LET simTime == Default(s.params.simTime, Zero)
        elevFactor ==
            MathMax(D(1, -1), Sub(N(1), Div(s.params.elevation, N(90))))
        scatterPower_dB ==
            Add(Add(s.losAmplitude_dB, Mul(sp.power, elevFactor)),
                Default(s.params.scatterPowerOffset_dB, Zero))
    IN  [index |-> TapIndex(s.taps), label |-> sp.label,
         delay_ns |-> Add(s.losDelay_ns, sp.delay),
         excessDelay_ns |-> sp.delay,
         amplitude_linear |-> Pow(N(10), Div(scatterPower_dB, N(20))),
         amplitude_dB |-> scatterPower_dB,
         phase_rad |->
            IF Gt(simTime, Zero)
            THEN Mul(getSoSFade(Add(simTime, Mul(N(i), D(73, -1)))), Pi)
            ELSE Mul(N(i + 1), D(17, -1))]

ScatterTap(s, sp, i) ==
    LET simTime == Default(s.params.simTime, Zero)
        elevFactor ==
            MathMax(D(1, -1), Sub(N(1), Div(s.params.elevation, N(90))))
        scatterPower_dB == Add(s.losAmplitude_dB, Mul(sp.power, elevFactor))
    IN  [index |-> TapIndex(s.taps), label |-> sp.label,
         delay_ns |-> Add(s.losDelay_ns, sp.delay),
         excessDelay_ns |-> sp.delay,
         amplitude_linear |-> Pow(N(10), Div(scatterPower_dB, N(20))),
         amplitude_dB |-> scatterPower_dB,
         phase_rad |->
            IF Gt(simTime, Zero)
            THEN Mul(getSoSFade(Add(simTime, Mul(N(i), D(73, -1)))), Pi)
            ELSE Mul(N(i + 1), D(17, -1))]

\* scatterParams.forEach((sp, i) => taps.push(...)), one component
cirScatterTap(s, i) ==
    Strict(s,
    IF s.params.env = "urban" \/ s.params.env = "suburban"
    THEN [s EXCEPT !.taps =
            Append(@, ScatterTap(s, ScatterParams(s.params.env)[i + 1], i))]
    ELSE s)

\* the ionospheric dispersion tap
cirIonoTap(s) ==
    Strict(s,
    LET simTime == Default(s.params.simTime, Zero)
        ionoPower_dB ==
            Sub(Sub(s.losAmplitude_dB, N(30)), Mul(N(10), Log10(s.params.freq)))
    IN  IF IonoTapPresent(s.dispersionNs)
        THEN [s EXCEPT !.taps =
                Append(@,
                   [index |-> TapIndex(s.taps), label |-> "ionospheric dispersion",
                    delay_ns |-> Add(s.losDelay_ns, s.dispersionNs),
                    excessDelay_ns |-> s.dispersionNs,
                    amplitude_linear |-> Pow(N(10), Div(ionoPower_dB, N(20))),
                    amplitude_dB |-> ionoPower_dB,
                    phase_rad |->
                        IF Gt(simTime, Zero)
                        THEN Mul(Mul(getSoSFade(Mul(simTime, D(3, -1))), Pi),
                                 D(5, -1))
                        ELSE D(5, -1)])]
        ELSE s)

\* totalPower, meanDelay, meanDelaySq and the RMS delay spread
cirSpread(s) ==
    Strict(s,
    LET taps == s.taps
        totalPower == TapSum(taps, Len(taps), 0)
        meanDelay == Div(TapSum(taps, Len(taps), 1), totalPower)
        meanDelaySq == Div(TapSum(taps, Len(taps), 2), totalPower)
    IN  [rmsDelaySpread_ns |->
            Sqrt(MathMax(Zero, Sub(meanDelaySq, Mul(meanDelay, meanDelay))))]
        @@ s)

\* the coherence bandwidth and the returned object
cirResult(s) ==
    Strict(s,
    [taps |-> s.taps,
     rmsDelaySpread_ns |-> s.rmsDelaySpread_ns,
     coherenceBandwidth_MHz |->
         IF Gt(s.rmsDelaySpread_ns, D(1, -3))
         THEN Div(N(1000), Mul(N(5), s.rmsDelaySpread_ns))
         ELSE N(99999),
     absoluteFspl |-> s.absoluteFspl,
     totalAtmLoss |-> s.totalAtmLoss])

computeCIR(params) ==
    cirResult(cirSpread(cirIonoTap(cirScatterTap(cirScatterTap(
        cirSeaTap(cirLosTap(cirAtmosphere(cirGeometry(params)))), 0), 1))))


(***************************************************************************)
(* Calibration profiles.                                                   *)
(***************************************************************************)
CALIB_PARAM_DEFS ==
    <<[key |-> "correctionFactor", defaultVal |-> N(1), min |-> D(3, -1),
       max |-> N(3), step |-> D(1, -2)],
      [key |-> "gasAttenOffset_dB", defaultVal |-> Zero, min |-> N(-2),
       max |-> N(2), step |-> D(1, -2)],
      [key |-> "scatterPowerOffset_dB", defaultVal |-> Zero, min |-> N(-10),
       max |-> N(5), step |-> D(1, -1)],
      [key |-> "eirpOffset_dB", defaultVal |-> Zero, min |-> N(-5),
       max |-> N(5), step |-> D(1, -1)],
      [key |-> "systemNoiseOffset_K", defaultVal |-> Zero, min |-> N(-50),
       max |-> N(100), step |-> N(1)]>>

CalibKeys == {CALIB_PARAM_DEFS[i].key : i \in 1..Len(CALIB_PARAM_DEFS)}
DefOf(key) == CHOOSE d \in {CALIB_PARAM_DEFS[i] : i \in 1..Len(CALIB_PARAM_DEFS)} : d.key = key

createDefaultCalibration ==
    [calibrated |-> FALSE, timestamp |-> "null", dataPointCount |-> 0,
     residualRMS |-> Zero,
     params |-> [key \in CalibKeys |-> DefOf(key).defaultVal]]

\* applyCalibration(rawParams, calibProfile), for a non-null profile
applyCalibration(rawParams, calibProfile) ==
    IF ~calibProfile.calibrated THEN rawParams
    ELSE LET cp == calibProfile.params
         IN  [rawParams EXCEPT
                !.correctionFactor = OrElse(cp.correctionFactor, N(1)),
                !.gasAttenOffset_dB = OrElse(cp.gasAttenOffset_dB, Zero),
                !.scatterPowerOffset_dB = OrElse(cp.scatterPowerOffset_dB, Zero),
                !.eirp = Add(OrElse(rawParams.eirp, N(60)),
                             OrElse(cp.eirpOffset_dB, Zero)),
                !.tRx = Add(OrElse(rawParams.tRx, N(150)),
                            OrElse(cp.systemNoiseOffset_K, Zero))]

(***************************************************************************)
(* calibrateModel: damped Gauss-Newton over the 5 calibration parameters.  *)
(* A measurement is a record of the properties the code reads; a property  *)
(* that is missing or null is Undefined.                                   *)
(***************************************************************************)
NoMeasurement ==
    [elevation |-> Undefined, rainRate |-> Undefined,
     measuredCN0_dB |-> Undefined, measuredRSSI_dBm |-> Undefined,
     measuredXPD_dB |-> Undefined, measuredAttenuation_dB |-> Undefined,
     measuredLoss |-> Undefined]


\* x != null
NotNull(x) == x.k # "undef"

\* simulateForMeasurement(linkParams, measurement), statement by statement
\* const testParams = {...linkParams, elevation: ..., rainRate: ...}
simTestParams(linkParams, measurement) ==
    [linkParams EXCEPT
        !.elevation = OrElse(measurement.elevation,
                             OrElse(linkParams.elevation, N(30))),
        !.rainRate = IF NotNull(measurement.rainRate)
                     THEN measurement.rainRate
                     ELSE OrElse(linkParams.rainRate, Zero)]

\* const lb = calculateLinkBudget(testParams); const absoluteFspl = ...
simLinkBudget(linkParams, measurement) ==
    [linkParams |-> linkParams,
     lb |-> calculateLinkBudget(simTestParams(linkParams, measurement)),
     absoluteFspl |->
        Add(Add(Mul(N(20), Log10(OrElse(linkParams.slantRange, N(35786)))),
                Mul(N(20), Log10(OrElse(linkParams.freq, N(30))))),
            D(9245, -2))]

\* absoluteLoss, rxPowerDbm, tSys, noisePowerW, noiseFloorDbm
simRxPower(s) ==
    Strict(s,
    LET lb == s.lb
        linkParams == s.linkParams
        eirp == OrElse(linkParams.eirp, N(60))
        gRx == OrElse(linkParams.gRx, N(42))
        tRx == OrElse(linkParams.tRx, N(150))
        bwMHz == OrElse(linkParams.bandwidth, N(400))
        absoluteLoss ==
            Add(Add(Add(Add(Add(Add(lb.totalAtmosphericLoss, lb.fadeLMS),
                lb.lossFaraday), lb.pointingLoss), OrElse(lb.scanLoss, Zero)),
                OrElse(lb.multipathLoss, Zero)), s.absoluteFspl)
        tSys == Add(Add(tRx, lb.tSky), N(3))
        noisePowerW == Mul(Mul(D(1380649, -29), tSys), Mul(bwMHz, D(1, 6)))
    IN  [rxPowerDbm |-> Add(Sub(Add(eirp, N(30)), absoluteLoss), gRx),
         noiseFloorDbm |-> Add(Mul(N(10), Log10(noisePowerW)), N(30))]
        @@ s)

\* cn0 and the returned object
simResult(s) ==
    Strict(s,
    [predictedCN0 |-> MathMax(N(-30), Sub(s.rxPowerDbm, s.noiseFloorDbm)),
     predictedRSSI |-> s.rxPowerDbm,
     predictedXPD |-> s.lb.xpd, predictedAtten |-> s.lb.totalAtmosphericLoss,
     totalLoss |-> s.lb.totalLoss])

simulateForMeasurement(linkParams, measurement) ==
    simResult(simRxPower(simLinkBudget(linkParams, measurement)))

\* the residuals one measurement contributes, in push order
ResidualsOf(sim, m) ==
    Strict(sim,
    (IF NotNull(m.measuredCN0_dB)
     THEN <<Mul(Sub(sim.predictedCN0, m.measuredCN0_dB), N(2))>> ELSE <<>>) \o
    (IF NotNull(m.measuredRSSI_dBm)
     THEN <<Mul(Sub(sim.predictedRSSI, m.measuredRSSI_dBm), D(15, -1))>>
     ELSE <<>>) \o
    (IF NotNull(m.measuredXPD_dB)
     THEN <<Mul(Sub(sim.predictedXPD, m.measuredXPD_dB), N(1))>> ELSE <<>>) \o
    (IF NotNull(m.measuredAttenuation_dB)
     THEN <<Mul(Sub(sim.predictedAtten, m.measuredAttenuation_dB), D(15, -1))>>
     ELSE <<>>) \o
    (IF NotNull(m.measuredLoss) /\ ~NotNull(m.measuredCN0_dB)
     THEN <<Mul(Sub(sim.totalLoss, m.measuredLoss), N(1))>> ELSE <<>>))

\* for (const m of measurements) { const sim = ...; residuals.push(...) }
RECURSIVE ResidualLoop(_, _, _)
ResidualLoop(measurements, calibratedParams, i) ==
    IF i > Len(measurements) THEN <<>>
    ELSE ResidualsOf(simulateForMeasurement(calibratedParams, measurements[i]),
                     measurements[i])
         \o ResidualLoop(measurements, calibratedParams, i + 1)

computeResiduals(measurements, linkParams, calibParams) ==
    ResidualLoop(measurements,
                 applyCalibration(linkParams,
                                  [calibrated |-> TRUE, params |-> calibParams]),
                 1)

\* seq.reduce((s, r) => s + r * r, 0)
RECURSIVE SumSquares(_, _)
SumSquares(seq, n) ==
    IF n = 0 THEN Zero
    ELSE Add(SumSquares(seq, n - 1), Mul(seq[n], seq[n]))

\* sum over r of u[r] * v[r], accumulated from 0 in index order
RECURSIVE Dot(_, _, _)
Dot(u, v, n) ==
    IF n = 0 THEN Zero ELSE Add(Dot(u, v, n - 1), Mul(u[n], v[n]))

maxIterations == 30
convergenceThreshold == D(1, -6)
dampingFactor == D(1, -2)
nParams == Len(CALIB_PARAM_DEFS)

\* const delta = Math.max(def.step * 0.1, 1e-6)
JacobianDelta(def) == MathMax(Mul(def.step, D(1, -1)), D(1, -6))

\* J[r][p] = (rPlus[r] - residuals[r]) / delta, for every r
JacobianQuotients(rPlus, residuals, delta) ==
    Strict(rPlus,
           [r \in 1..Len(residuals) |-> Div(Sub(rPlus[r], residuals[r]), delta)])

\* calibParams[def.key] = savedVal + delta
Perturbed(calibParams, def) ==
    [calibParams EXCEPT ![def.key] = Add(calibParams[def.key], JacobianDelta(def))]

\* column p of the numerical Jacobian
JacobianColumn(measurements, effectiveParams, calibParams, residuals, p) ==
    JacobianQuotients(
        computeResiduals(measurements, effectiveParams,
                         Perturbed(calibParams, CALIB_PARAM_DEFS[p])),
        residuals, JacobianDelta(CALIB_PARAM_DEFS[p]))

\* the row with the largest |A[row][col]| among rows col..nParams (first wins)
RECURSIVE PivotRow(_, _, _, _)
PivotRow(A, col, row, maxRow) ==
    IF row > nParams THEN maxRow
    ELSE IF Gt(MathAbs(A[row][col]), MathAbs(A[maxRow][col]))
         THEN PivotRow(A, col, row + 1, row)
         ELSE PivotRow(A, col, row + 1, maxRow)

SwapRows(M, i, j) == [M EXCEPT ![i] = M[j], ![j] = M[i]]

\* forward elimination with partial pivoting, columns col..nParams
RECURSIVE Eliminate(_, _, _)
\* column col, after the pivot row has been swapped into place
EliminateColumn(A, b, col) ==
    LET pivot == A[col][col]
        factor(row) == Div(A[row][col], pivot)
    IN  IF Lt(MathAbs(pivot), D(1, -12)) THEN Eliminate(A, b, col + 1)
        ELSE Eliminate(
               [row \in 1..nParams |->
                   IF row > col
                   THEN [j \in 1..nParams |->
                           IF j >= col
                           THEN Sub(A[row][j], Mul(factor(row), A[col][j]))
                           ELSE A[row][j]]
                   ELSE A[row]],
               [row \in 1..nParams |->
                   IF row > col THEN Sub(b[row], Mul(factor(row), b[col]))
                   ELSE b[row]],
               col + 1)

Eliminate(A0, b0, col) ==
    IF col > nParams THEN [A |-> A0, b |-> b0]
    ELSE EliminateColumn(SwapRows(A0, col, PivotRow(A0, col, col + 1, col)),
                         SwapRows(b0, col, PivotRow(A0, col, col + 1, col)),
                         col)

\* sum = b[i] - A[i][i+1]*dp[i+1] - ... in index order
RECURSIVE BackSum(_, _, _, _, _)
BackSum(A, b, dp, i, j) ==
    IF j = i THEN b[i]
    ELSE Sub(BackSum(A, b, dp, i, j - 1), Mul(A[i][j], dp[j]))

\* back substitution, rows i..1, dp a Float64Array of zeros to start with
RECURSIVE BackSubstitute(_, _, _, _)
BackSubstitute(A, b, dp, i) ==
    IF i = 0 THEN dp
    ELSE LET sum == BackSum(A, b, dp, i, nParams)
             dpi == IF Gt(MathAbs(A[i][i]), D(1, -12)) THEN Div(sum, A[i][i])
                    ELSE Zero
         IN  BackSubstitute(A, b, [dp EXCEPT ![i] = dpi], i - 1)

\* const newVal = Math.max(def.min, Math.min(def.max, value - dp))
ClampParam(def, value) == MathMax(def.min, MathMin(def.max, value))

\* maxStep over the parameters 1..p
RECURSIVE MaxStepOf(_, _, _)
MaxStepOf(old, new, p) ==
    IF p = 0 THEN Zero
    ELSE LET key == CALIB_PARAM_DEFS[p].key
         IN  MathMax(MaxStepOf(old, new, p - 1), MathAbs(Sub(new[key], old[key])))

\* One iteration of the loop, statement by statement; each step takes the
\* record s of the constants computed so far.
\* const residuals = computeResiduals(...)
gnResiduals(measurements, effectiveParams, calibParams) ==
    [measurements |-> measurements, effectiveParams |-> effectiveParams,
     calibParams |-> calibParams,
     residuals |-> computeResiduals(measurements, effectiveParams, calibParams)]

\* the numerical Jacobian, by columns
gnJacobian(s) ==
    Strict(s,
    [J |-> [p \in 1..nParams |->
              JacobianColumn(s.measurements, s.effectiveParams, s.calibParams,
                             s.residuals, p)]] @@ s)

\* JtJ with the damping added to its diagonal, and JtR
gnNormal(s) ==
    Strict(s,
    LET nResiduals == Len(s.residuals)
        JtJ0 == [i \in 1..nParams |->
                   [j \in 1..nParams |-> Dot(s.J[i], s.J[j], nResiduals)]]
    IN  [JtR |-> [i \in 1..nParams |-> Dot(s.J[i], s.residuals, nResiduals)],
         JtJ |-> [i \in 1..nParams |->
                    [j \in 1..nParams |->
                       IF i = j
                       THEN Add(JtJ0[i][i],
                                Mul(dampingFactor, Add(JtJ0[i][i], D(1, -8))))
                       ELSE JtJ0[i][j]]]] @@ s)

\* back substitution over the eliminated system
Solve(tri) ==
    Strict(tri,
           BackSubstitute(tri.A, tri.b, [i \in 1..nParams |-> Zero], nParams))

\* Gaussian elimination: dp
gnSolve(s) ==
    Strict(s, [dp |-> Solve(Eliminate(s.JtJ, s.JtR, 1))] @@ s)

\* calibParams[def.key] = newVal, for every parameter
gnUpdate(s) ==
    Strict(s,
    [newParams |->
        [key \in CalibKeys |->
            LET p == CHOOSE q \in 1..nParams : CALIB_PARAM_DEFS[q].key = key
            IN  ClampParam(CALIB_PARAM_DEFS[p], Sub(s.calibParams[key], s.dp[p]))]]
    @@ s)

\* the updated parameters, the largest step and the cost
gnResult(s) ==
    Strict(s,
    [params |-> s.newParams,
     maxStep |-> MaxStepOf(s.calibParams, s.newParams, nParams),
     currentCost |-> SumSquares(s.residuals, Len(s.residuals))])

GaussNewtonStep(measurements, effectiveParams, calibParams) ==
    gnResult(gnUpdate(gnSolve(gnNormal(gnJacobian(
        gnResiduals(measurements, effectiveParams, calibParams))))))

(***************************************************************************)
(* generateChannelTimeSeries: the scan over [startTime, endTime].          *)
(*                                                                         *)
(* The orbit propagator (satellite.js) is a collaborator: at each scanned  *)
(* timestamp it resolves a position (elevation, azimuth, range), resolves  *)
(* none, or raises.  The scan log `scanned` and the engine-call log        *)
(* `engineCalls` are history variables.                                    *)
(***************************************************************************)
MaxScan == 3

NullDate == [k |-> "null", m |-> 0, e |-> 0]

\* new Date(t).getTime(): the time value is clipped to whole milliseconds
TimeClip(tt) ==
    IF tt.k # "fin" THEN NaN
    ELSE IF tt.m >= 0 THEN N(FloorInt(tt))
    ELSE Neg(N(FloorInt(Neg(tt))))

\* link parameter objects a caller passes ("null" stands for a null argument)
RawSBand ==
    [NoParams EXCEPT !.freq = D(22, -1), !.rainRate = Zero, !.env = "maritime",
                     !.tec = N(50), !.eirp = N(60), !.gRx = N(42),
                     !.tRx = N(150), !.bandwidth = N(400)]

BoundaryProfile ==
    [createDefaultCalibration EXCEPT
        !.calibrated = TRUE,
        !.params = [key \in CalibKeys |-> DefOf(key).min]]

LinkParamsOf(name) ==
    CASE name = "ku_test" ->
           [NoParams EXCEPT !.freq = N(12), !.rainRate = N(5), !.env = "suburban",
                            !.eirp = N(60), !.gRx = N(42), !.tRx = N(150),
                            !.bandwidth = N(400), !.tec = N(50)]
      [] name = "ka_static" ->
           [NoParams EXCEPT !.freq = N(30), !.rainRate = N(10), !.env = "urban",
                            !.disableFastFading = TRUE, !.isPhasedArray = TRUE]
      [] name = "sband_calibrated" -> applyCalibration(RawSBand, BoundaryProfile)
      [] OTHER -> NoParams

LinkParamNames == {"ku_test", "ka_static", "sband_calibrated", "empty", "null"}

PropOutcomes ==
    {[kind |-> "none", elev |-> Zero, az |-> Zero, range |-> Zero],
     [kind |-> "throws", elev |-> Zero, az |-> Zero, range |-> Zero],
     [kind |-> "position", elev |-> N(-10), az |-> N(200), range |-> N(3000)],
     [kind |-> "position", elev |-> N(60), az |-> N(45), range |-> N(600)]}

\* scan windows: whole seconds, a sub-millisecond step, and steps that never
\* advance past endTime
ScanWindows ==
    {[endTime |-> N(2000), stepSec |-> N(1)],
     [endTime |-> N(1), stepSec |-> D(5, -4)],
     [endTime |-> N(2000), stepSec |-> Zero],
     [endTime |-> N(2000), stepSec |-> N(-1)]}

TSInputs ==
    {[tle |-> tle, startTime |-> st, endTime |-> w.endTime,
      stepSec |-> w.stepSec, linkParams |-> lp] :
        tle \in {"valid", "null"}, st \in {NullDate, Zero},
        w \in ScanWindows, lp \in LinkParamNames}

WallClocks == {N(1000), N(86400000)}

VARIABLES pc, now, tsIn, t, frameIndex, timeline, engineCalls, scanned,
          raised, tsResult, cirIn, cirOut, calIn, calibParams, iter, calResult,
          costLog, lbIn, lbOut, lbCir,
          calibMeasurements, calibMetadata, calibSatId, calibBandKey,
          calibProfile, useCalibration, calibStatus, panelLink, callLink,
          timers, clicks,
          apRaw, apProfile, apOut, apSame,
          ppIn, ppK, inPass, aosTime, maxElev, tcaTime, losTime, passes,
          coarse, ppResult

\* a mutation: the oscillator time is taken from the wall clock
SimTimeFromClock(fi, stepSec) == Div(now, N(1000))

\* const simTimeSec = frameIndex * stepSec;
SimTimeSec(fi, stepSec) == Mul(N(fi), stepSec)

\* a mutation: the engines are given the propagator's elevation unclamped
EngineElevationRaw(elev) == elev

\* elevation: Math.max(0.1, elev)
EngineElevation(elev) == MathMax(D(1, -1), elev)

\* The body of one loop iteration for a resolved position, statement by
\* statement; each step takes the record s of the constants computed so far.
\* The parameter objects handed to calculateLinkBudget and computeCIR.
frameEngineParams(pos, tt, fi, stepSec, linkParams) ==
    [pos |-> pos, tt |-> tt, fi |-> fi, linkParams |-> linkParams,
     lbParams |->
        [linkParams EXCEPT
            !.elevation = EngineElevation(pos.elev),
            !.slantRange = pos.range,
            !.simTime = IF linkParams.disableFastFading THEN Zero
                        ELSE SimTimeSec(fi, stepSec)]]

\* const lb = calculateLinkBudget({...}); const absoluteFspl = ...
frameLinkBudget(s) ==
    Strict(s,
    [lb |-> calculateLinkBudget(s.lbParams),
     absoluteFspl |->
        Add(Add(Mul(N(20), Log10(s.pos.range)),
                Mul(N(20), Log10(OrElse(s.linkParams.freq, N(30))))),
            D(9245, -2)),
     cirParams |-> [s.lbParams EXCEPT !.freq = OrElse(s.linkParams.freq, N(30))]]
    @@ s)

\* absoluteLoss, rxPowerDbm, tSys, noisePowerW, noiseFloorDbm
frameRxPower(s) ==
    Strict(s,
    LET lb == s.lb
        linkParams == s.linkParams
        eirp == OrElse(linkParams.eirp, N(60))
        gRx == OrElse(linkParams.gRx, N(42))
        tRx == OrElse(linkParams.tRx, N(150))
        bwMHz == OrElse(linkParams.bandwidth, N(400))
        absoluteLoss ==
            Add(Add(Add(Add(Add(Add(Add(lb.totalAtmosphericLoss, lb.fadeLMS),
                lb.lossFaraday), lb.pointingLoss), OrElse(lb.scanLoss, Zero)),
                OrElse(lb.multipathLoss, Zero)), OrElse(lb.scintLoss, Zero)),
                s.absoluteFspl)
        tSys == Add(Add(tRx, lb.tSky), N(3))
        noisePowerW == Mul(Mul(D(1380649, -29), tSys), Mul(bwMHz, D(1, 6)))
    IN  [rxPowerDbm |-> Add(Sub(Add(eirp, N(30)), absoluteLoss), gRx),
         noiseFloorDbm |-> Add(Mul(N(10), Log10(noisePowerW)), N(30))]
        @@ s)

\* snrDb and the MIMO capacities
frameSnr(s) ==
    Strict(s,
    [snrDb |-> MathMax(N(-30), Sub(s.rxPowerDbm, s.noiseFloorDbm))] @@ s)

frameMimo(s) ==
    Strict(s, [mimo |-> calculateMIMOCapacity(s.snrDb, s.lb.xpd)] @@ s)

\* timeline.push({...}), with the arguments of the two engine calls
frameRecord(s) ==
    Strict(s,
    LET lb == s.lb
    IN  [frame |->
           [time |-> TimeClip(s.tt), frameIndex |-> s.fi,
            elevation |-> s.pos.elev,
            azimuth |-> s.pos.az, slantRange |-> s.pos.range,
            apparentElevation |-> lb.apparentElevation,
            absoluteFspl |-> s.absoluteFspl, rxPowerDbm |-> s.rxPowerDbm,
            noiseFloorDbm |-> s.noiseFloorDbm, snrDb |-> s.snrDb,
            attRain |-> lb.attRain, attGas |-> lb.attGas,
            attCloud |-> lb.attCloud,
            totalAtmosphericLoss |-> lb.totalAtmosphericLoss,
            fadeLMS |-> lb.fadeLMS, lossFaraday |-> lb.lossFaraday,
            pointingLoss |-> lb.pointingLoss,
            scanLoss |-> OrElse(lb.scanLoss, Zero),
            multipathLoss |-> OrElse(lb.multipathLoss, Zero),
            scintLoss |-> OrElse(lb.scintLoss, Zero),
            tSky |-> lb.tSky, xpd |-> lb.xpd,
            capRank1 |-> s.mimo.capRank1, capRank2 |-> s.mimo.capRank2,
            groupDelayNs |-> lb.groupDelayNs, dispersionNs |-> lb.dispersionNs,
            cir |-> computeCIR(s.cirParams)],
         call |-> [lb |-> s.lbParams, cir |-> s.cirParams]])

MakeFrame(pos, tt, fi, stepSec, linkParams) ==
    frameRecord(frameMimo(frameSnr(frameRxPower(frameLinkBudget(
        frameEngineParams(pos, tt, fi, stepSec, linkParams))))))

tsVars == <<tsIn, t, frameIndex, timeline, engineCalls, scanned, raised, tsResult>>
cirVars == <<cirIn, cirOut>>
calVars == <<calIn, calibParams, iter, calResult, costLog>>
lbVars == <<lbIn, lbOut, lbCir>>
panelVars ==
    <<calibMeasurements, calibMetadata, calibSatId, calibBandKey, calibProfile,
      useCalibration, calibStatus, panelLink, callLink, timers, clicks>>
apVars == <<apRaw, apProfile, apOut, apSame>>
passVars ==
    <<ppIn, ppK, inPass, aosTime, maxElev, tcaTime, losTime, passes, coarse,
      ppResult>>
notTS == <<cirVars, calVars, lbVars, panelVars, apVars, passVars>>
vars ==
    <<pc, now, tsVars, cirVars, calVars, lbVars, panelVars, apVars, passVars>>

\* no response computed yet
NoCIR ==
    [taps |-> <<>>, rmsDelaySpread_ns |-> Undefined,
     coherenceBandwidth_MHz |-> Undefined, absoluteFspl |-> Undefined,
     totalAtmLoss |-> Undefined]

\* calibMetadata before a file with metadata is loaded: useState(null)
NoSatellite ==
    [freq |-> Undefined, eirp |-> Undefined, polarization |-> "",
     bandwidth |-> Undefined]
NoMetadata == [kind |-> "null", satId |-> "", band |-> "", sat |-> NoSatellite]

\* no link budget returned yet
NoBudget == [totalLoss |-> Undefined]

\* no profile returned yet
NoProfile ==
    [calibrated |-> FALSE, timestamp |-> NullDate, dataPointCount |-> -1,
     residualRMS |-> Undefined, refSatellite |-> "null",
     params |-> [key \in CalibKeys |-> Undefined]]

\* the state of the components a specification does not exercise
CalIdle ==
    /\ calIn = [measurements |-> "null", linkParams |-> "empty",
                refSatellite |-> "null"]
    /\ calibParams = createDefaultCalibration.params
    /\ iter = 0
    /\ calResult = NoProfile
    /\ costLog = <<>>
CIRIdle == cirIn = NoParams /\ cirOut = NoCIR
PanelIdle ==
    /\ calibMeasurements = "empty" /\ calibMetadata = NoMetadata
    /\ calibSatId = "" /\ calibBandKey = ""
    /\ calibProfile = NoProfile /\ useCalibration = FALSE /\ calibStatus = ""
    /\ panelLink = NoParams /\ callLink = NoParams
    /\ timers = <<>> /\ clicks = 0
LBIdle == lbIn = NoParams /\ lbOut = NoBudget /\ lbCir = NoCIR
ApplyIdle ==
    /\ apRaw = NoParams /\ apProfile = NoProfile /\ apOut = NoParams
    /\ apSame = FALSE
PassIdle ==
    /\ ppIn = [tle |-> "valid", hoursAhead |-> Zero, minElev |-> Zero]
    /\ ppK = 0 /\ inPass = FALSE /\ aosTime = NullDate /\ maxElev = N(-90)
    /\ tcaTime = NullDate /\ losTime = NullDate /\ passes = <<>>
    /\ coarse = <<>> /\ ppResult = <<>>
TSIdle ==
    /\ tsIn = [tle |-> "valid", startTime |-> Zero, endTime |-> Zero,
               stepSec |-> Zero, linkParams |-> "empty"]
    /\ t = Zero /\ frameIndex = 0 /\ timeline = <<>> /\ engineCalls = <<>>
    /\ scanned = <<>> /\ raised = FALSE /\ tsResult = <<>>

TSInit ==
    /\ pc = "ts_entry"
    /\ now \in WallClocks
    /\ tsIn \in TSInputs
    /\ t = Zero
    /\ frameIndex = 0
    /\ timeline = <<>>
    /\ engineCalls = <<>>
    /\ scanned = <<>>
    /\ raised = FALSE
    /\ tsResult = <<>>
    /\ CIRIdle
    /\ CalIdle
    /\ LBIdle
    /\ PanelIdle
    /\ ApplyIdle
    /\ PassIdle

\* a mutation: the frames built before the exception are returned
TSCatchPartial ==
    /\ raised' = TRUE
    /\ tsResult' = timeline
    /\ pc' = "ts_returned"

\* a mutation: the exception escapes the call
TSRethrow ==
    /\ raised' = TRUE
    /\ tsResult' = tsResult
    /\ pc' = "ts_thrown"

\* catch (e) { console.error(...); return []; }
TSCatch ==
    /\ raised' = TRUE
    /\ tsResult' = <<>>
    /\ pc' = "ts_returned"

\* try { twoline2satrec(...); ...; for (let t = startTime.getTime(); ...
TSEnter ==
    /\ pc = "ts_entry"
    /\ IF tsIn.tle = "null" \/ tsIn.startTime = NullDate
       THEN /\ TSCatch
            /\ UNCHANGED <<t, frameIndex, timeline>>
       ELSE /\ t' = tsIn.startTime
            /\ frameIndex' = 0
            /\ timeline' = <<>>
            /\ pc' = "ts_loop"
            /\ UNCHANGED <<raised, tsResult>>
    /\ UNCHANGED <<notTS, now, tsIn, engineCalls, scanned>>

\* the loop condition t <= endTime.getTime(), within the scan bound
InLoop == pc = "ts_loop" /\ Le(t, tsIn.endTime)

Advance == t' = Add(t, Mul(tsIn.stepSec, N(1000)))

Logged(outcome) == scanned' = Append(scanned, [t |-> t, outcome |-> outcome])

\* a mutation: a position below the horizon counts as unresolved
HasPositionAboveHorizon(o) == o.kind = "position" /\ Gt(o.elev, Zero)

\* pv.position is truthy
HasPosition(o) == o.kind = "position"

\* if (!pv.position) continue;
TSSkip ==
    /\ InLoop /\ Len(scanned) < MaxScan
    /\ \E o \in PropOutcomes :
          /\ o.kind # "throws" /\ ~HasPosition(o)
          /\ Logged(o)
    /\ Advance
    /\ UNCHANGED <<notTS, pc, now, tsIn, frameIndex, timeline, engineCalls, raised,
                   tsResult>>

\* the propagator raises inside the try block
TSPropagateThrows ==
    /\ InLoop /\ Len(scanned) < MaxScan
    /\ \E o \in PropOutcomes :
          /\ o.kind = "throws"
          /\ Logged(o)
    /\ TSCatch
    /\ UNCHANGED <<notTS, now, tsIn, t, frameIndex, timeline, engineCalls>>

\* timeline.push(frame), with a log of the engine calls that built it
Push(f) ==
    /\ timeline' = Append(timeline, f.frame)
    /\ engineCalls' = Append(engineCalls, f.call)

\* a resolved position: build the frame, push it, frameIndex++
TSEmit ==
    /\ InLoop /\ Len(scanned) < MaxScan
    /\ \E o \in PropOutcomes :
          /\ HasPosition(o)
          /\ Logged(o)
          /\ IF tsIn.linkParams = "null"
             THEN /\ TSCatch
                  /\ UNCHANGED <<t, frameIndex, timeline, engineCalls>>
             ELSE /\ Push(MakeFrame(o, t, frameIndex, tsIn.stepSec,
                                    LinkParamsOf(tsIn.linkParams)))
                  /\ frameIndex' = frameIndex + 1
                  /\ Advance
                  /\ UNCHANGED <<pc, raised, tsResult>>
    /\ UNCHANGED <<notTS, now, tsIn>>

\* the loop condition fails: return timeline
TSReturn ==
    /\ pc = "ts_loop" /\ ~Le(t, tsIn.endTime)
    /\ tsResult' = timeline
    /\ pc' = "ts_returned"
    /\ UNCHANGED <<notTS, now, tsIn, t, frameIndex, timeline, engineCalls, scanned,
                   raised>>

TSNext == TSEnter \/ TSSkip \/ TSPropagateThrows \/ TSEmit \/ TSReturn

SpecTS == TSInit /\ [][TSNext]_vars

(***************************************************************************)
(* computeCIR as a one-step machine: a caller's parameter object, then the *)
(* response computed from it.                                              *)
(***************************************************************************)
CIRInputs ==
    {NoParams} \cup
    {[NoParams EXCEPT !.freq = f, !.elevation = el, !.slantRange = N(1200),
                      !.env = env, !.rainRate = N(5), !.simTime = st] :
        f \in {N(12), N(30), N(100)},
        el \in {N(-10), N(20), N(90)},
        env \in {"urban", "suburban", "maritime", "rural", "undefined"},
        st \in {Undefined, N(3)}}

CIRInit ==
    /\ pc = "cir_call"
    /\ now \in WallClocks
    /\ cirIn \in CIRInputs
    /\ cirOut = NoCIR
    /\ TSIdle
    /\ CalIdle
    /\ LBIdle
    /\ PanelIdle
    /\ ApplyIdle
    /\ PassIdle

CIRCompute ==
    /\ pc = "cir_call"
    /\ cirOut' = computeCIR(cirIn)
    /\ pc' = "cir_done"
    /\ UNCHANGED <<now, cirIn, tsVars, calVars, lbVars, panelVars, apVars,
                   passVars>>

CIRNext == CIRCompute

SpecCIR == CIRInit /\ [][CIRNext]_vars

(***************************************************************************)
(* The two engines called with one parameter object, as the test scripts   *)
(* and the time-series loop call them: calculateLinkBudget(params), then   *)
(* computeCIR(params).                                                     *)
(***************************************************************************)
\* the elevation below the horizon whose refraction correction cancels it:
\* apparentElevation = elevation + refractionCorrection is exactly 0
HorizonElevation ==
    Neg(lbRefraction([NoParams EXCEPT !.elevation = N(-1)]).refractionCorrection)

\* a complete parameter object; the families below vary its properties
BaseParams ==
    [NoParams EXCEPT !.freq = N(12), !.rainRate = N(5), !.elevation = N(30),
                     !.env = "suburban", !.tec = N(50), !.slantRange = N(600)]

\* frequency > 0, elevation in [-90, 90], rain rate >= 0, slant range > 0
BoundaryInputs ==
    {[BaseParams EXCEPT !.freq = f, !.elevation = el, !.rainRate = rr,
                          !.env = env, !.isPhasedArray = TRUE] :
        f \in {D(1, -4), N(12), N(150)},
        el \in {N(-90), N(-10), HorizonElevation, Zero, N(90)},
        rr \in {Zero, N(5)},
        env \in {"suburban", "maritime"}}

\* frequencies below, between, at and above the keys of RAIN_COEFFS
BandInputs ==
    {[BaseParams EXCEPT !.freq = f] :
        f \in {D(5, -1), D(22, -1), N(7), N(21), N(30), N(36), N(40), N(46),
               N(50), N(100), N(149), N(200)}}

\* simTime and disableFastFading, on complete and on empty parameter objects
FadingInputs ==
    {[base EXCEPT !.simTime = st, !.disableFastFading = off] :
        base \in {BaseParams, NoParams,
                  [BaseParams EXCEPT !.env = "maritime", !.freq = N(30)]},
        st \in {Undefined, Zero, N(3), D(25, -1)},
        off \in {TRUE, FALSE}}

\* the vacuum baseline: no rain, no electrons
VacuumInputs ==
    {[BaseParams EXCEPT !.freq = f, !.elevation = el, !.env = env,
                          !.rainRate = Zero, !.tec = Zero] :
        f \in {D(1, -170), D(1, -4), N(12), N(150)},
        el \in {D(1, -1), N(30), N(90)},
        env \in {"urban", "suburban", "maritime", "rural"}}

LBInputs == BoundaryInputs \cup BandInputs \cup FadingInputs \cup VacuumInputs

LBInit ==
    /\ pc = "lb_call"
    /\ now \in WallClocks
    /\ lbIn \in LBInputs
    /\ lbOut = NoBudget
    /\ lbCir = NoCIR
    /\ TSIdle
    /\ CIRIdle
    /\ CalIdle
    /\ PanelIdle
    /\ ApplyIdle
    /\ PassIdle

LBBudget ==
    /\ pc = "lb_call"
    /\ lbOut' = calculateLinkBudget(lbIn)
    /\ pc' = "lb_cir"
    /\ UNCHANGED <<now, lbIn, lbCir, tsVars, cirVars, calVars, panelVars, apVars,
                   passVars>>

LBResponse ==
    /\ pc = "lb_cir"
    /\ lbCir' = computeCIR(lbIn)
    /\ pc' = "lb_done"
    /\ UNCHANGED <<now, lbIn, lbOut, tsVars, cirVars, calVars, panelVars, apVars,
                   passVars>>

LBNext == LBBudget \/ LBResponse

SpecLB == LBInit /\ [][LBNext]_vars

(***************************************************************************)
(* calibrateModel as a machine: the guard, one step per loop iteration,    *)
(* and the final statistics with the return.                               *)
(***************************************************************************)
MeasurementsOf(name) ==
    CASE name = "rssi_one" ->
           <<[NoMeasurement EXCEPT !.rainRate = N(10), !.measuredRSSI_dBm = N(-75)]>>
      [] name = "mixed" ->
           <<[NoMeasurement EXCEPT !.rainRate = N(10), !.elevation = N(45),
                                   !.measuredCN0_dB = N(8), !.measuredXPD_dB = N(20)],
             [NoMeasurement EXCEPT !.rainRate = N(25),
                                   !.measuredAttenuation_dB = N(30),
                                   !.measuredLoss = N(40)]>>
      [] name = "odd_elevation" ->
           <<[NoMeasurement EXCEPT !.elevation = Zero, !.measuredRSSI_dBm = N(-80)],
             [NoMeasurement EXCEPT !.elevation = N(-5), !.rainRate = N(5),
                                   !.measuredAttenuation_dB = N(3)]>>
      [] name = "no_observables" ->
           <<[NoMeasurement EXCEPT !.rainRate = N(5), !.elevation = N(30)],
             NoMeasurement>>
      [] name = "overflow_rain" ->
           <<[NoMeasurement EXCEPT !.rainRate = D(1, 152),
                                   !.measuredRSSI_dBm = N(-50)]>>
      [] OTHER -> <<>>

MeasurementNames ==
    {"null", "undefined", "empty", "rssi_one", "mixed", "odd_elevation",
     "no_observables", "overflow_rain"}

\* "panel" is the object the calibration panel builds from its own fields
CalLinkParamsOf(name) ==
    IF name = "ka"
    THEN [NoParams EXCEPT !.freq = N(30), !.elevation = N(30), !.env = "suburban"]
    ELSE IF name = "panel" THEN callLink
    ELSE NoParams

\* the reference satellite handed over by the calibration panel
RefSatelliteOf(name) == [satName |-> name, freq |-> D(117, -1), eirp |-> N(52)]

\* the reference satellite is tried where linkParams carries no frequency
CalInputs ==
    {in \in [measurements : MeasurementNames, linkParams : {"ka", "empty"},
             refSatellite : {"null", "ku_ref"}] :
        in.refSatellite = "null" \/ in.linkParams = "empty"}

\* a mutation: only a missing list is treated as empty
NoMeasurementsNullOnly(name) == name \in {"null", "undefined"}

\* !measurements || measurements.length === 0
NoMeasurements(name) ==
    name \in {"null", "undefined"} \/ Len(MeasurementsOf(name)) = 0

\* refSatellite ? { ...linkParams, freq, eirp } : { ...linkParams }
EffectiveParams(in) ==
    IF in.refSatellite # "null"
    THEN [CalLinkParamsOf(in.linkParams) EXCEPT
            !.freq = RefSatelliteOf(in.refSatellite).freq,
            !.eirp = RefSatelliteOf(in.refSatellite).eirp]
    ELSE CalLinkParamsOf(in.linkParams)

CalInit ==
    /\ pc = "cal_entry"
    /\ now \in WallClocks
    /\ calIn \in CalInputs
    /\ calibParams = createDefaultCalibration.params
    /\ iter = 0
    /\ calResult = NoProfile
    /\ costLog = <<>>
    /\ TSIdle
    /\ CIRIdle
    /\ LBIdle
    /\ PanelIdle
    /\ ApplyIdle
    /\ PassIdle

\* the guard, and the initialisation of calibParams
CalEnter ==
    /\ pc = "cal_entry"
    /\ IF NoMeasurements(calIn.measurements)
       THEN /\ calResult' = [createDefaultCalibration EXCEPT !.params = @]
            /\ pc' = "cal_returned"
            /\ UNCHANGED <<calibParams, iter, costLog>>
       ELSE /\ calibParams' = [key \in CalibKeys |-> DefOf(key).defaultVal]
            /\ iter' = 0
            /\ costLog' = <<>>
            /\ pc' = "cal_loop"
            /\ UNCHANGED calResult
    /\ UNCHANGED <<now, calIn, tsVars, cirVars, lbVars, panelVars, apVars,
                   passVars>>

\* a mutation: the loop without its break
CalStepNoBreak(step) ==
    /\ calibParams' = step.params
    /\ costLog' = Append(costLog, step.currentCost)
    /\ iter' = iter + 1
    /\ pc' = IF iter + 1 < maxIterations THEN "cal_loop" ELSE "cal_final"

\* the end of an iteration: break when maxStep < convergenceThreshold
CalStep(step) ==
    /\ calibParams' = step.params
    /\ costLog' = Append(costLog, step.currentCost)
    /\ IF Lt(step.maxStep, convergenceThreshold)
       THEN /\ pc' = "cal_final"
            /\ iter' = iter
       ELSE /\ iter' = iter + 1
            /\ pc' = IF iter + 1 < maxIterations THEN "cal_loop"
                     ELSE "cal_final"

\* one iteration of for (let iter = 0; iter < maxIterations; iter++)
CalIterate ==
    /\ pc = "cal_loop" /\ iter < maxIterations
    /\ CalStep(GaussNewtonStep(MeasurementsOf(calIn.measurements),
                               EffectiveParams(calIn), calibParams))
    /\ UNCHANGED <<now, calIn, calResult, tsVars, cirVars, lbVars, panelVars, apVars,
                   passVars>>

\* Math.sqrt(finalResiduals.reduce(...) / Math.max(1, finalResiduals.length))
ResidualRMS(finalResiduals) ==
    Strict(finalResiduals,
           Sqrt(Div(SumSquares(finalResiduals, Len(finalResiduals)),
                    MathMax(N(1), N(Len(finalResiduals))))))

\* return { calibrated: true, timestamp: new Date().toISOString(), ... }
\* with clock the reading of the system clock at the return statement
FinalProfile(in, params, clock) ==
    [calibrated |-> TRUE, timestamp |-> clock,
     dataPointCount |-> Len(MeasurementsOf(in.measurements)),
     residualRMS |->
         ResidualRMS(computeResiduals(MeasurementsOf(in.measurements),
                                      EffectiveParams(in), params)),
     refSatellite |-> IF in.refSatellite # "null"
                      THEN RefSatelliteOf(in.refSatellite).satName
                      ELSE "null",
     params |-> params]

\* the final residual statistics and the returned profile
CalFinish ==
    /\ pc = "cal_final"
    /\ calResult' = FinalProfile(calIn, calibParams, now)
    /\ pc' = "cal_returned"
    /\ UNCHANGED <<now, calIn, calibParams, iter, costLog, tsVars, cirVars, lbVars, panelVars, apVars,
                   passVars>>

CalNext == CalEnter \/ CalIterate \/ CalFinish

SpecCal == CalInit /\ [][CalNext]_vars

(***************************************************************************)
(* ChannelSimPanel: the calibration panel.  The status line is kept as the *)
(* kind of message shown; the warnings only add text to it.  The timer of  *)
(* a run is 50 ms: the button can be pressed again before it fires, a file *)
(* dialog or a dropdown cannot be completed.                               *)
(***************************************************************************)
MaxClicks == 2

\* useState(globalParams?.freq || 12.0) ... useState(globalParams?.rainRate || 5.0)
PanelDefaults ==
    [NoParams EXCEPT !.freq = N(12), !.eirp = N(60), !.gRx = N(42),
                     !.tRx = N(150), !.bandwidth = N(400), !.tec = N(50),
                     !.env = "suburban", !.rainRate = N(5)]

CustomSatellite(sat) ==
    [kind |-> "custom", satId |-> "", band |-> "", sat |-> sat]

FullSatellite ==
    [freq |-> D(117, -1), eirp |-> N(52), polarization |-> "RHCP",
     bandwidth |-> N(36)]

\* the JSON files offered to the file input: a plain array, files with a
\* complete and with an incomplete custom satellite, a file naming a known
\* satellite, and a file without usable measurements
PanelFiles ==
    {[measurements |-> "rssi_one", metadata |-> NoMetadata],
     [measurements |-> "rssi_one", metadata |-> CustomSatellite(FullSatellite)],
     [measurements |-> "rssi_one",
      metadata |-> CustomSatellite([FullSatellite EXCEPT !.eirp = Undefined])],
     [measurements |-> "rssi_one",
      metadata |-> CustomSatellite([FullSatellite EXCEPT !.polarization = ""])],
     [measurements |-> "rssi_one",
      metadata |-> [kind |-> "id", satId |-> "ku_ref", band |-> "Ku",
                    sat |-> NoSatellite]],
     [measurements |-> "no_observables",
      metadata |-> CustomSatellite([FullSatellite EXCEPT !.freq = Undefined])]}

\* a mutation: the polarization is not among the required fields
MissingFieldsButPolarization(sat) ==
    {f \in {"freq", "eirp", "bandwidth"} : ~NotNull(sat[f])}

\* if (sat.freq == null) ...; if (sat.eirp == null) ...;
\* if (!sat.polarization) ...; if (sat.bandwidth == null) ...
MissingFields(sat) ==
    {f \in {"freq", "eirp", "bandwidth"} : ~NotNull(sat[f])}
    \cup (IF sat.polarization = "" THEN {"polarization"} ELSE {})

\* calibMeasurements.filter(m => m.measuredCN0_dB != null || ...)
ValidPoints(name) ==
    SelectSeq(MeasurementsOf(name),
              LAMBDA m : \/ NotNull(m.measuredCN0_dB) \/ NotNull(m.measuredRSSI_dBm)
                         \/ NotNull(m.measuredXPD_dB)
                         \/ NotNull(m.measuredAttenuation_dB)
                         \/ NotNull(m.measuredLoss))

\* the errors array of the run-calibration handler
CalibrationErrors(meta, measurements) ==
    (IF meta.kind = "custom" THEN MissingFields(meta.sat) ELSE {})
    \cup (IF Len(ValidPoints(measurements)) = 0 THEN {"no valid points"} ELSE {})

PanelInit ==
    /\ pc = "panel"
    /\ now = N(1000)
    /\ calibMeasurements = "empty" /\ calibMetadata = NoMetadata
    /\ calibSatId = "" /\ calibBandKey = ""
    /\ calibProfile = createDefaultCalibration
    /\ useCalibration = FALSE /\ calibStatus = ""
    /\ panelLink = PanelDefaults /\ callLink = NoParams
    /\ timers = <<>> /\ clicks = 0
    /\ TSIdle
    /\ CIRIdle
    /\ CalIdle
    /\ LBIdle
    /\ ApplyIdle
    /\ PassIdle

\* reader.onload of the file input: the measurements, the metadata and the
\* fields filled from the metadata
PanelLoadFile(file) ==
    /\ pc = "panel" /\ timers = <<>>
    /\ calibMeasurements' = file.measurements
    /\ calibMetadata' = file.metadata
    /\ calibStatus' = "loaded"
    /\ IF file.metadata.kind = "id"
       THEN /\ calibSatId' = file.metadata.satId
            /\ calibBandKey' = file.metadata.band
            /\ panelLink' =
                   [panelLink EXCEPT
                      !.freq = RefSatelliteOf(file.metadata.satId).freq,
                      !.eirp = RefSatelliteOf(file.metadata.satId).eirp]
       ELSE IF file.metadata.kind = "custom"
       THEN /\ calibSatId' = ""
            /\ UNCHANGED calibBandKey
            /\ panelLink' =
                   [panelLink EXCEPT
                      !.freq = Default(file.metadata.sat.freq, @),
                      !.eirp = Default(file.metadata.sat.eirp, @),
                      !.bandwidth = Default(file.metadata.sat.bandwidth, @)]
       ELSE UNCHANGED <<calibSatId, calibBandKey, panelLink>>
    /\ UNCHANGED <<pc, now, calibProfile, useCalibration, callLink, timers,
                   clicks, tsVars, cirVars, calVars, lbVars, apVars, passVars>>

\* the satellite dropdown: setCalibSatId(value); setCalibBandKey('')
PanelSelectSatellite(id) ==
    /\ pc = "panel" /\ timers = <<>>
    /\ calibSatId' = id
    /\ calibBandKey' = ""
    /\ UNCHANGED <<pc, now, calibMeasurements, calibMetadata, calibProfile,
                   useCalibration, calibStatus, panelLink, callLink, timers,
                   clicks, tsVars, cirVars, calVars, lbVars, apVars, passVars>>

\* the band dropdown, rendered only when a satellite is selected
PanelSelectBand(band) ==
    /\ pc = "panel" /\ timers = <<>>
    /\ calibSatId # ""
    /\ calibBandKey' = band
    /\ IF band # ""
       THEN /\ panelLink' =
                   [panelLink EXCEPT !.freq = RefSatelliteOf(calibSatId).freq,
                                     !.eirp = RefSatelliteOf(calibSatId).eirp]
            /\ calibStatus' = "band applied"
       ELSE UNCHANGED <<panelLink, calibStatus>>
    /\ UNCHANGED <<pc, now, calibMeasurements, calibMetadata, calibSatId,
                   calibProfile, useCalibration, callLink, timers, clicks,
                   tsVars, cirVars, calVars, lbVars, apVars, passVars>>

\* onClick of the run-calibration button
PanelRunCalibration ==
    /\ pc = "panel"
    /\ clicks < MaxClicks
    /\ clicks' = clicks + 1
    /\ IF Len(MeasurementsOf(calibMeasurements)) = 0
       THEN /\ calibStatus' = "import data first"
            /\ UNCHANGED timers
       ELSE IF CalibrationErrors(calibMetadata, calibMeasurements) # {}
       THEN /\ calibStatus' = "cannot calibrate"
            /\ UNCHANGED timers
       ELSE /\ calibStatus' = "calibrating"
            /\ timers' = Append(timers,
                                [measurements |-> calibMeasurements,
                                 satId |-> calibSatId, band |-> calibBandKey,
                                 link |-> panelLink])
    /\ UNCHANGED <<pc, now, calibMeasurements, calibMetadata, calibSatId,
                   calibBandKey, calibProfile, useCalibration, panelLink,
                   callLink, tsVars, cirVars, calVars, lbVars, apVars, passVars>>

\* the setTimeout callback: calibrateModel(calibMeasurements, {...}, refSat)
\* with the values of the render that scheduled it
PanelTimer ==
    /\ pc = "panel"
    /\ timers # <<>>
    /\ timers' = Tail(timers)
    /\ callLink' = Head(timers).link
    /\ calIn' = [measurements |-> Head(timers).measurements,
                 linkParams |-> "panel",
                 refSatellite |-> IF Head(timers).satId # ""
                                     /\ Head(timers).band # ""
                                  THEN Head(timers).satId ELSE "null"]
    /\ pc' = "cal_entry"
    /\ UNCHANGED <<now, calibMeasurements, calibMetadata, calibSatId,
                   calibBandKey, calibProfile, useCalibration, calibStatus,
                   panelLink, clicks, calibParams, iter, calResult, costLog,
                   tsVars, cirVars, lbVars, apVars, passVars>>

\* setCalibProfile(profile); setUseCalibration(true); the status line
PanelCalibrated ==
    /\ pc = "cal_returned"
    /\ calibProfile' = calResult
    /\ useCalibration' = TRUE
    /\ calibStatus' = "calibrated"
    /\ pc' = "panel"
    /\ callLink' = NoParams
    /\ calIn' = [measurements |-> "null", linkParams |-> "empty",
                 refSatellite |-> "null"]
    /\ calibParams' = createDefaultCalibration.params
    /\ iter' = 0 /\ calResult' = NoProfile /\ costLog' = <<>>
    /\ UNCHANGED <<now, calibMeasurements, calibMetadata, calibSatId,
                   calibBandKey, panelLink, timers, clicks, tsVars, cirVars,
                   lbVars, apVars, passVars>>

\* the reset button, rendered only when calibProfile.calibrated
PanelReset ==
    /\ pc = "panel"
    /\ calibProfile.calibrated
    /\ calibProfile' = createDefaultCalibration
    /\ useCalibration' = FALSE
    /\ calibStatus' = "reset"
    /\ UNCHANGED <<pc, now, calibMeasurements, calibMetadata, calibSatId,
                   calibBandKey, panelLink, callLink, timers, clicks, tsVars,
                   cirVars, calVars, lbVars, apVars, passVars>>

PanelNext ==
    \/ \E file \in PanelFiles : PanelLoadFile(file)
    \/ \E id \in {"", "ku_ref"} : PanelSelectSatellite(id)
    \/ \E band \in {"", "Ku"} : PanelSelectBand(band)
    \/ PanelRunCalibration
    \/ PanelTimer
    \/ CalNext
    \/ PanelCalibrated
    \/ PanelReset

SpecPanel == PanelInit /\ [][PanelNext]_vars

(***************************************************************************)
(* applyCalibration applied to raw link parameters and a profile           *)
(***************************************************************************)
\* raw parameter objects with the eirp and tRx absent, 0 and positive
ApplyRawInputs ==
    {[base EXCEPT !.eirp = e, !.tRx = tr] :
        base \in {NoParams, RawSBand, LinkParamsOf("ku_test")},
        e \in {Undefined, Zero, N(45), N(60)},
        tr \in {Undefined, Zero, N(150), N(290)}}

\* the uncalibrated default, a null profile (it takes the same branch), and
\* calibrated profiles at the identity and at the bounds of the parameters
ApplyProfiles ==
    {createDefaultCalibration, NoProfile,
     [createDefaultCalibration EXCEPT !.calibrated = TRUE],
     BoundaryProfile,
     [createDefaultCalibration EXCEPT
        !.calibrated = TRUE,
        !.params = [key \in CalibKeys |-> DefOf(key).max]]}

\* if (!calibProfile || !calibProfile.calibrated) return rawParams;
ReturnsArgument(profile) == ~profile.calibrated

ApplyInit ==
    /\ pc = "ap_call"
    /\ now \in WallClocks
    /\ apRaw \in ApplyRawInputs
    /\ apProfile \in ApplyProfiles
    /\ apOut = NoParams
    /\ apSame = FALSE
    /\ TSIdle
    /\ CIRIdle
    /\ CalIdle
    /\ LBIdle
    /\ PanelIdle
    /\ PassIdle

\* the call: the arguments are only read; apSame records that the object
\* returned is rawParams itself
ApplyCall ==
    /\ pc = "ap_call"
    /\ apOut' = applyCalibration(apRaw, apProfile)
    /\ apSame' = ReturnsArgument(apProfile)
    /\ pc' = "ap_done"
    /\ UNCHANGED <<now, apRaw, apProfile, tsVars, cirVars, calVars, lbVars,
                   panelVars, passVars>>

SpecApply == ApplyInit /\ [][ApplyCall]_vars

(***************************************************************************)
(* predictPasses as a machine: one step per one-minute sample of the scan. *)
(* The elevation the propagator gives at a sample and the 5-second sample  *)
(* at which a refinement loop stops are chosen by the environment; a fine  *)
(* sample that falls on the previous one-minute sample repeats its         *)
(* elevation, getElev being a function of the date.                        *)
(***************************************************************************)
MaxMinutes == 3

stepMs == 60000
fineStepMs == 5000

\* getElev: if (!pv.position) return -999
Unresolved == N(-999)

\* the values getElev returns at the one-minute samples, in degrees
Elevations == {Unresolved, N(-5), D(5, -1), N(20)}

\* the arguments: the TLE lines, hoursAhead and minElev
PassInputs ==
    [tle : {"valid", "null"},
     hoursAhead : {Div(N(MaxMinutes - 1), N(60)), Div(N(MaxMinutes), N(60))},
     minElev : {Zero, N(10)}]

\* t of the coarse loop in its iteration k
SampleTime(k) == Add(now, N(stepMs * k))

\* a mutation: the refinement scans forward from t
FineTimeForward(tt, j) == Add(tt, N(fineStepMs * j))

\* rt of a refinement loop after j increments: t - stepMs + j * fineStepMs
FineTime(tt, j) == Add(Sub(tt, N(stepMs)), N(fineStepMs * j))

\* the fine samples at which a refinement loop can stop
FineHits == {1, stepMs \div fineStepMs}

\* endTime.getTime()
PassEndTime == Add(now, Mul(ppIn.hoursAhead, N(3600000)))

\* t <= endTime.getTime()
PassInLoop == Le(SampleTime(ppK), PassEndTime)

\* the first rt with getElev(rt) > minElev: rt = t - stepMs is the previous
\* one-minute sample, or a date before the scan in the first iteration
AosHits ==
    IF ppK = 0 THEN {0} \cup FineHits
    ELSE IF Gt(coarse[ppK].elev, ppIn.minElev) THEN {0}
    ELSE FineHits

\* the first rt with getElev(rt) <= minElev
LosHits ==
    IF ppK = 0 THEN {0} \cup FineHits
    ELSE IF Le(coarse[ppK].elev, ppIn.minElev) THEN {0}
    ELSE FineHits

\* a mutation: every pass is reported
ReportedAlways(elev, durationSec) == TRUE

\* maxElev >= 1.0 && durationSec >= 30
Reported(elev, durationSec) == Ge(elev, N(1)) /\ Ge(durationSec, N(30))

PassInit ==
    /\ pc = "pp_entry"
    /\ now = N(86400000)
    /\ ppIn \in PassInputs
    /\ ppK = 0 /\ inPass = FALSE /\ aosTime = NullDate /\ maxElev = N(-90)
    /\ tcaTime = NullDate /\ losTime = NullDate /\ passes = <<>>
    /\ coarse = <<>> /\ ppResult = <<>>
    /\ TSIdle
    /\ CIRIdle
    /\ CalIdle
    /\ LBIdle
    /\ PanelIdle
    /\ ApplyIdle

passOthers == <<now, ppIn, tsVars, cirVars, calVars, lbVars, panelVars, apVars>>

\* twoline2satrec, observerGd and the locals before the loop
PassEnter ==
    /\ pc = "pp_entry"
    /\ ppIn.tle # "null"
    /\ pc' = "pp_scan"
    /\ UNCHANGED <<ppK, inPass, aosTime, maxElev, tcaTime, losTime, passes,
                   coarse, ppResult, passOthers>>

\* twoline2satrec throws on a null line: catch (e) { return []; }
PassCatch ==
    /\ pc = "pp_entry"
    /\ ppIn.tle = "null"
    /\ pc' = "pp_caught"
    /\ ppResult' = <<>>
    /\ UNCHANGED <<ppK, inPass, aosTime, maxElev, tcaTime, losTime, passes,
                   coarse, passOthers>>

\* if (elev === -999) continue;
PassSkip ==
    /\ pc = "pp_scan"
    /\ PassInLoop
    /\ coarse' = Append(coarse, [elev |-> Unresolved, hit |-> -1])
    /\ ppK' = ppK + 1
    /\ UNCHANGED <<pc, inPass, aosTime, maxElev, tcaTime, losTime, passes,
                   ppResult, passOthers>>

\* if (elev > minElev && !inPass): AOS, refined backwards
PassAOS(elev, j) ==
    /\ pc = "pp_scan"
    /\ PassInLoop
    /\ ~Eq(elev, Unresolved)
    /\ Gt(elev, ppIn.minElev) /\ ~inPass
    /\ j \in AosHits
    /\ inPass' = TRUE
    /\ aosTime' = FineTime(SampleTime(ppK), j)
    /\ maxElev' = elev
    /\ tcaTime' = SampleTime(ppK)
    /\ coarse' = Append(coarse, [elev |-> elev, hit |-> j])
    /\ ppK' = ppK + 1
    /\ UNCHANGED <<pc, losTime, passes, ppResult, passOthers>>

\* else if (elev > maxElev && inPass)
PassTrack(elev) ==
    /\ pc = "pp_scan"
    /\ PassInLoop
    /\ ~Eq(elev, Unresolved)
    /\ ~(Gt(elev, ppIn.minElev) /\ ~inPass)
    /\ Gt(elev, maxElev) /\ inPass
    /\ maxElev' = elev
    /\ tcaTime' = SampleTime(ppK)
    /\ coarse' = Append(coarse, [elev |-> elev, hit |-> -1])
    /\ ppK' = ppK + 1
    /\ UNCHANGED <<pc, inPass, aosTime, losTime, passes, ppResult, passOthers>>

\* else if (elev <= minElev && inPass): LOS, refined, the pass pushed
PassLOS(elev, j) ==
    /\ pc = "pp_scan"
    /\ PassInLoop
    /\ ~Eq(elev, Unresolved)
    /\ ~(Gt(elev, ppIn.minElev) /\ ~inPass)
    /\ ~(Gt(elev, maxElev) /\ inPass)
    /\ Le(elev, ppIn.minElev) /\ inPass
    /\ j \in LosHits
    /\ inPass' = FALSE
    /\ losTime' = FineTime(SampleTime(ppK), j)
    /\ LET durationSec == Div(Sub(losTime', aosTime), N(1000))
       IN  passes' = IF Reported(maxElev, durationSec)
                     THEN Append(passes,
                                 [aos |-> aosTime, tca |-> tcaTime,
                                  los |-> losTime', maxElev |-> maxElev,
                                  durationSec |-> durationSec])
                     ELSE passes
    /\ aosTime' = NullDate
    /\ maxElev' = N(-90)
    /\ tcaTime' = NullDate
    /\ coarse' = Append(coarse, [elev |-> elev, hit |-> j])
    /\ ppK' = ppK + 1
    /\ UNCHANGED <<pc, ppResult, passOthers>>

\* a resolved sample that takes none of the three branches
PassQuiet(elev) ==
    /\ pc = "pp_scan"
    /\ PassInLoop
    /\ ~Eq(elev, Unresolved)
    /\ ~(Gt(elev, ppIn.minElev) /\ ~inPass)
    /\ ~(Gt(elev, maxElev) /\ inPass)
    /\ ~(Le(elev, ppIn.minElev) /\ inPass)
    /\ coarse' = Append(coarse, [elev |-> elev, hit |-> -1])
    /\ ppK' = ppK + 1
    /\ UNCHANGED <<pc, inPass, aosTime, maxElev, tcaTime, losTime, passes,
                   ppResult, passOthers>>

\* return passes
PassReturn ==
    /\ pc = "pp_scan"
    /\ ~PassInLoop
    /\ ppResult' = passes
    /\ pc' = "pp_returned"
    /\ UNCHANGED <<ppK, inPass, aosTime, maxElev, tcaTime, losTime, passes,
                   coarse, passOthers>>

PassNext ==
    \/ PassEnter
    \/ PassCatch
    \/ PassSkip
    \/ \E elev \in Elevations, j \in 0..(stepMs \div fineStepMs) :
           PassAOS(elev, j)
    \/ \E elev \in Elevations : PassTrack(elev)
    \/ \E elev \in Elevations, j \in 0..(stepMs \div fineStepMs) :
           PassLOS(elev, j)
    \/ \E elev \in Elevations : PassQuiet(elev)
    \/ PassReturn

SpecPasses == PassInit /\ [][PassNext]_vars

(***************************************************************************)
(* Properties of generateChannelTimeSeries (checked under SpecTS).         *)
(***************************************************************************)
\* the scanned timestamps at which the propagator returned a position
ResolvedScans == SelectSeq(scanned, LAMBDA sc : sc.outcome.kind = "position")
SkippedScans == SelectSeq(scanned, LAMBDA sc : sc.outcome.kind = "none")

ReturnedNormally == pc = "ts_returned" /\ ~raised

\* C1: as long as no exception ends the call, the frames built are exactly
\* the scanned timestamps at which the propagator returned a position, one
\* frame each and in scan order, whatever the elevation (zero and negative
\* elevations included); a timestamp without a position adds no frame; and
\* the list returned is that list of frames.
C1_OneFramePerResolvedTimestamp ==
    ~raised =>
        /\ Len(timeline) = Len(ResolvedScans)
        /\ \A i \in 1..Len(timeline) :
              /\ timeline[i].time = TimeClip(ResolvedScans[i].t)
              /\ timeline[i].elevation = ResolvedScans[i].outcome.elev
              /\ timeline[i].slantRange = ResolvedScans[i].outcome.range
        /\ (pc = "ts_returned" => tsResult = timeline)

\* C1 witness: a call returned a frame of negative elevation and skipped a
\* timestamp without a position
C1_Witness ==
    /\ ReturnedNormally
    /\ Len(SkippedScans) >= 1
    /\ \E i \in 1..Len(tsResult) : Lt(tsResult[i].elevation, Zero)
    /\ Len(tsResult) + Len(SkippedScans) = Len(scanned)

\* C2: in the returned sequence frame k (0-based) has frameIndex = k and the
\* frame timestamps are strictly increasing.
C2_IndexedAndStrictlyIncreasing ==
    pc = "ts_returned" =>
        /\ \A i \in 1..Len(tsResult) : tsResult[i].frameIndex = i - 1
        /\ \A i \in 1..(Len(tsResult) - 1) :
              Lt(tsResult[i].time, tsResult[i + 1].time)

\* C5: the call never lets an exception escape: whenever one is raised, the
\* call has returned and its result is the empty list.
C5_ExceptionGivesEmptyList ==
    /\ pc \in {"ts_entry", "ts_loop", "ts_returned"}
    /\ raised => (pc = "ts_returned" /\ tsResult = <<>>)

\* C5 witness: the propagator raised after a frame had already been built
C5_Witness ==
    /\ raised /\ pc = "ts_returned" /\ tsResult = <<>>
    /\ Len(timeline) >= 1
    /\ scanned[Len(scanned)].outcome.kind = "throws"

\* C6: for every frame, the elevation given to calculateLinkBudget and to
\* computeCIR is the propagator's elevation raised to at least 0.1, and the
\* frame's elevation field is the propagator's elevation itself.
C6_EnginesGetFlooredElevation ==
    \A i \in 1..Len(timeline) :
        LET elev == ResolvedScans[i].outcome.elev
            floored == IF Lt(elev, D(1, -1)) THEN D(1, -1) ELSE elev
        IN  /\ i <= Len(engineCalls) /\ i <= Len(ResolvedScans)
            /\ engineCalls[i].lb.elevation = floored
            /\ engineCalls[i].cir.elevation = floored
            /\ timeline[i].elevation = elev

\* C6 witness: a frame below the horizon whose engines ran at 0.1 degrees
C6_Witness ==
    \E i \in 1..Len(timeline) :
        /\ timeline[i].elevation = N(-10)
        /\ engineCalls[i].lb.elevation = D(1, -1)
        /\ engineCalls[i].cir.elevation = D(1, -1)

\* C7: the simTime given to the engines for a frame is frameIndex * stepSec,
\* or 0 when disableFastFading is set, whatever the wall clock reads.
C7_SimTimeFromFrameIndex ==
    \A i \in 1..Len(timeline) :
        LET expected ==
                IF LinkParamsOf(tsIn.linkParams).disableFastFading THEN Zero
                ELSE Mul(N(timeline[i].frameIndex), tsIn.stepSec)
        IN  /\ engineCalls[i].lb.simTime = expected
            /\ engineCalls[i].cir.simTime = expected

\* C7 witness: the second frame of a one-second scan fades at simTime = 1
C7_Witness ==
    /\ Len(timeline) >= 2
    /\ tsIn.stepSec = N(1)
    /\ engineCalls[2].lb.simTime = N(1)
    /\ timeline[2].scintLoss # Zero
    /\ now # N(1000)

\* C8: every frame has a finite snrDb of at least -30 dB.
C8_SnrFiniteAndFloored ==
    \A i \in 1..Len(timeline) :
        IsFinite(timeline[i].snrDb) /\ Ge(timeline[i].snrDb, N(-30))

(***************************************************************************)
(* Properties of computeCIR (checked under SpecCIR).                       *)
(***************************************************************************)
Labels(taps) == [i \in 1..Len(taps) |-> taps[i].label]

\* the taps an environment contributes between LOS and the ionospheric tap
EnvLabels(env) ==
    CASE env = "maritime" -> <<"sea reflection">>
      [] env = "urban" -> <<"building scatter near", "building scatter far">>
      [] env = "suburban" -> <<"vegetation scatter near", "vegetation scatter far">>
      [] OTHER -> <<>>

\* C9: the tap list has at least one tap, its first tap is the LOS tap with
\* excess delay 0 and phase 0, and every tap's index is its position.
C9_LosFirstAndIndexed ==
    pc = "cir_done" =>
        /\ Len(cirOut.taps) >= 1
        /\ cirOut.taps[1].label = "LOS"
        /\ cirOut.taps[1].excessDelay_ns = Zero
        /\ cirOut.taps[1].phase_rad = Zero
        /\ \A i \in 1..Len(cirOut.taps) : cirOut.taps[i].index = i - 1

\* C9 witness: an urban response of four taps computed at simTime > 0
C9_Witness ==
    /\ pc = "cir_done"
    /\ cirIn.env = "urban" /\ cirIn.simTime = N(3)
    /\ Len(cirOut.taps) = 4
    /\ cirOut.taps[4].index = 3

WithinBounds(params) ==
    \A key \in CalibKeys :
        /\ Ge(params[key], DefOf(key).min)
        /\ Le(params[key], DefOf(key).max)

GivenMeasurements == MeasurementsOf(calIn.measurements)

\* C3: for a non-empty measurement list, each of the 5 parameters lies within
\* the [min,max] of its CALIB_PARAM_DEFS entry at the end of every iteration
\* of the loop and in the returned profile.
C3_ParamsWithinBounds ==
    Len(GivenMeasurements) > 0 =>
        /\ pc \in {"cal_loop", "cal_final"} => WithinBounds(calibParams)
        /\ pc = "cal_returned" => WithinBounds(calResult.params)

\* C4: a null, undefined or empty measurement list returns the profile with
\* calibrated = false, dataPointCount = 0 and the parameters at identity
\* (1.0 for correctionFactor, 0.0 for the four offsets); a non-empty list
\* returns calibrated = true.
C4_EmptyGivesDefaultProfile ==
    pc = "cal_returned" =>
        IF calIn.measurements \in {"null", "undefined"} \/ Len(GivenMeasurements) = 0
        THEN /\ calResult.calibrated = FALSE
             /\ calResult.dataPointCount = 0
             /\ \A key \in CalibKeys :
                   Eq(calResult.params[key],
                      IF key = "correctionFactor" THEN N(1) ELSE Zero)
        ELSE calResult.calibrated = TRUE

C4_Witness ==
    /\ pc = "cal_returned"
    /\ calIn.measurements = "empty"
    /\ calResult.calibrated = FALSE
    /\ calResult.dataPointCount = 0

(***************************************************************************)
(* Properties of calculateLinkBudget and computeCIR (checked under SpecLB) *)
(***************************************************************************)
\* every numeric field of the returned objects is a finite number
AllFinite(r) == \A f \in DOMAIN r : IsFinite(r[f])

TapFinite(tap) ==
    /\ IsFinite(tap.delay_ns) /\ IsFinite(tap.excessDelay_ns)
    /\ IsFinite(tap.amplitude_linear) /\ IsFinite(tap.amplitude_dB)
    /\ IsFinite(tap.phase_rad)

CIRFinite(r) ==
    /\ \A i \in 1..Len(r.taps) : TapFinite(r.taps[i])
    /\ IsFinite(r.rmsDelaySpread_ns) /\ IsFinite(r.coherenceBandwidth_MHz)
    /\ IsFinite(r.absoluteFspl) /\ IsFinite(r.totalAtmLoss)

\* frequency > 0, elevation in [-90, 90], rain rate >= 0, slant range > 0
InPhysicalDomain(params) ==
    /\ Gt(params.freq, Zero)
    /\ Ge(params.elevation, N(-90)) /\ Le(params.elevation, N(90))
    /\ Ge(params.rainRate, Zero)
    /\ Gt(params.slantRange, Zero)

\* C12: for frequency > 0, elevation in [-90, 90], rain rate >= 0 and slant
\* range > 0, every field returned by calculateLinkBudget and by computeCIR
\* is a finite number, at elevation 0, at negative elevations and at the
\* elevation whose apparent elevation is exactly 0 included.
C12_EveryFieldFinite ==
    InPhysicalDomain(lbIn) =>
        /\ pc \in {"lb_cir", "lb_done"} => AllFinite(lbOut)
        /\ pc = "lb_done" => CIRFinite(lbCir)


\* C13: in calculateLinkBudget every quantity divided by the sine of the
\* apparent elevation (rain slant path, gas and cloud attenuation, Faraday
\* angle, scintillation sigmas, group delay, dispersion) has a divisor that
\* is floored at a positive minimum: the divisor is positive for every
\* elevation at or below the horizon.
C13_SineDivisorsFloored ==
    (pc = "lb_done" /\ Le(lbIn.elevation, Zero)) =>
        /\ Gt(PathDivisor(lbGeometry(lbRefraction(lbIn))), Zero)
        /\ Gt(IonoDivisor(lbGeometry(lbRefraction(lbIn))), Zero)

\* the table entries whose key is nearest to freq
NearestEntries(freq) ==
    {c \in {RAIN_COEFFS[i] : i \in 1..Len(RAIN_COEFFS)} :
        \A i \in 1..Len(RAIN_COEFFS) :
            Le(MathAbs(Sub(c.f, freq)), MathAbs(Sub(RAIN_COEFFS[i].f, freq)))}

IsNearestPair(freq, pair) ==
    \E c \in NearestEntries(freq) : pair = [k |-> c.k, alpha |-> c.alpha]

\* C14: for every frequency > 0 the pair (k, alpha) chosen by
\* calculateLinkBudget and by computeCIR is the entry of the table keyed at
\* 2.2, 12, 30, 40 and 50 GHz whose key has the smallest absolute difference
\* to the frequency (the 50 GHz entry for frequencies far above the table).
C14_NearestRainCoefficients ==
    (pc = "lb_done" /\ Gt(lbIn.freq, Zero)) =>
        /\ IsNearestPair(lbIn.freq, lbRefraction(lbIn).rainCoeff)
        /\ IsNearestPair(lbIn.freq, cirGeometry(lbIn).rainCoeff)


(***************************************************************************)
(* Further properties of computeResiduals and calibrateModel (SpecCal)     *)
(***************************************************************************)
RicherFields ==
    {"measuredCN0_dB", "measuredRSSI_dBm", "measuredXPD_dB",
     "measuredAttenuation_dB"}

\* one residual per populated richer field, and the measuredLoss residual
\* only where none of the four richer fields is populated
ExpectedResidualCount(m) ==
    Cardinality({f \in RicherFields : NotNull(m[f])})
    + (IF NotNull(m.measuredLoss) /\ \A f \in RicherFields : ~NotNull(m[f])
       THEN 1 ELSE 0)

ResidualCount(m) ==
    Len(ResidualsOf(simulateForMeasurement(
                        applyCalibration(EffectiveParams(calIn),
                                         [calibrated |-> TRUE,
                                          params |-> calibParams]), m), m))

\* C15: for each measurement point computeResiduals appends one residual per
\* populated field among C/N0, RSSI, XPD and attenuation, and the generic
\* measuredLoss residual only when measuredLoss is populated and none of
\* those four fields is populated on that point.
C15_ResidualTermsPerPoint ==
    pc = "cal_final" =>
        \A i \in 1..Len(GivenMeasurements) :
            ResidualCount(GivenMeasurements[i])
                = ExpectedResidualCount(GivenMeasurements[i])


\* what calibrateModel returns for the arguments of this run when the system
\* clock reads clock at the return
CalReturnAt(clock) ==
    IF NoMeasurements(calIn.measurements) THEN createDefaultCalibration
    ELSE FinalProfile(calIn, calibParams, clock)

\* C16: calibrateModel is deterministic in its explicit arguments: an
\* invocation with the same arguments made at any other wall-clock time
\* returns a result equal in every field to the one returned here.
C16_SameArgumentsSameResult ==
    pc = "cal_returned" => \A clock \in WallClocks : CalReturnAt(clock) = calResult


\* every parameter moved by less than the convergence threshold in the step
\* from old to new
AllChangesBelowThreshold(old, new) ==
    \A key \in CalibKeys : Lt(MathAbs(Sub(new[key], old[key])), convergenceThreshold)

\* an iteration that is not the 30th ends the loop exactly when the largest
\* change among the clamped parameters is below 1e-6
StopsEarlyExactlyOnConvergence ==
    (pc = "cal_loop" /\ pc' # pc /\ iter + 1 < maxIterations)
        => (pc' = "cal_final" <=> AllChangesBelowThreshold(calibParams, calibParams'))

\* an iteration that does not end the loop counts up: maxIterations - iter is
\* a variant of the loop
IterationCounts ==
    (pc = "cal_loop" /\ pc' = "cal_loop")
        => (iter' = iter + 1 /\ ~AllChangesBelowThreshold(calibParams, calibParams'))

\* C17: the calibrateModel loop terminates after at most 30 iterations for
\* every input, and it stops before the 30th iteration exactly when the
\* largest absolute change among the 5 clamped parameters in the iteration
\* just completed is below 1e-6.  The loop runs only while iter is below 30,
\* every iteration that continues the loop increases iter by one, and an
\* iteration before the 30th leaves the loop exactly on convergence.
C17_LoopBoundedAndStopsOnConvergence ==
    /\ [](pc = "cal_loop" => (iter >= 0 /\ iter < maxIterations))
    /\ [](pc \in {"cal_final", "cal_returned"} => iter <= maxIterations)
    /\ [][StopsEarlyExactlyOnConvergence /\ IterationCounts]_vars

\* the loop has stopped on convergence before its 30th iteration
C17_Witness ==
    /\ pc = "cal_final"
    /\ iter + 1 < maxIterations
    /\ ~NoMeasurements(calIn.measurements)


\* residuals.reduce((s, r) => s + r * r, 0)
CostOf(residuals) == Strict(residuals, SumSquares(residuals, Len(residuals)))

\* the sum of squared weighted residuals at the returned parameters
ReturnedCost ==
    CostOf(computeResiduals(GivenMeasurements, EffectiveParams(calIn),
                            calResult.params))

\* C18: when the loop ends, the returned parameter set is the best one found:
\* its sum of squared weighted residuals is not larger than that of any
\* parameter set the loop held at the start of an iteration (costLog, the
\* currentCost of each iteration, the first being that of the defaults), and
\* residualRMS is the RMS of the residuals at the returned parameters.
C18_ReturnsBestParameters ==
    (pc = "cal_returned" /\ ~NoMeasurements(calIn.measurements)) =>
        /\ \A i \in 1..Len(costLog) : ~Gt(ReturnedCost, costLog[i])
        /\ calResult.residualRMS
               = ResidualRMS(computeResiduals(GivenMeasurements,
                                              EffectiveParams(calIn),
                                              calResult.params))


(***************************************************************************)
(* Further properties of calculateLinkBudget (checked under SpecLB)        *)
(***************************************************************************)
\* simTime is 0 or undefined, or fast fading is disabled
FadingOff(params) ==
    \/ params.simTime = Undefined
    \/ Eq(params.simTime, Zero)
    \/ params.disableFastFading

\* C19: calculateLinkBudget returns a scintillation loss of exactly 0 whenever
\* simTime is 0 or undefined or disableFastFading is set, for every other
\* input, and getSoSFade returns exactly 0 for t = 0 and for undefined t.
C19_NoFadingGivesZeroScintLoss ==
    /\ getSoSFade(Zero) = Zero
    /\ getSoSFade(Undefined) = Zero
    /\ (pc \in {"lb_cir", "lb_done"} /\ FadingOff(lbIn)) => lbOut.scintLoss = Zero

\* fast fading disabled at simTime = 3 on a link whose scintillation sigma is
\* not zero
C19_Witness ==
    /\ pc = "lb_done"
    /\ lbIn.disableFastFading /\ Eq(lbIn.simTime, N(3))
    /\ Gt(lbOut.scintillationSigma, Zero)
    /\ lbOut.scintLoss = Zero


\* no rain and no electrons, at a frequency and an elevation above 0
VacuumBaseline(params) ==
    /\ Gt(params.freq, Zero) /\ Gt(params.elevation, Zero)
    /\ Eq(params.rainRate, Zero) /\ Eq(params.tec, Zero)

\* C20: for every frequency > 0, elevation > 0 and environment,
\* calculateLinkBudget with rainRate = 0 and tec = 0 returns attRain = 0,
\* lossFaraday = 0, groupDelayNs = 0 and dispersionNs = 0 exactly.
C20_VacuumBaselineIsZero ==
    (pc \in {"lb_cir", "lb_done"} /\ VacuumBaseline(lbIn)) =>
        /\ lbOut.attRain = Zero
        /\ lbOut.lossFaraday = Zero
        /\ lbOut.groupDelayNs = Zero
        /\ lbOut.dispersionNs = Zero


(***************************************************************************)
(* Properties of ChannelSimPanel (checked under SpecPanel)                 *)
(***************************************************************************)
\* the loaded metadata holds a custom satellite object that lacks one of
\* freq, eirp, polarization, bandwidth
CustomSatelliteUnderspecified ==
    /\ calibMetadata.kind = "custom"
    /\ \/ calibMetadata.sat.freq = Undefined
       \/ calibMetadata.sat.eirp = Undefined
       \/ calibMetadata.sat.polarization = ""
       \/ calibMetadata.sat.bandwidth = Undefined

\* the step is a press of the run-calibration button
RunPressed == clicks' = clicks + 1

\* C21: pressing the run-calibration button while the loaded metadata holds a
\* custom satellite object that lacks any of freq, eirp, polarization or
\* bandwidth never calls calibrateModel (no call is scheduled or started) and
\* leaves calibProfile and useCalibration unchanged, whatever the dropdowns
\* hold; only the status message changes.
C21_UnderspecifiedSatelliteBlocksRun ==
    [][(RunPressed /\ CustomSatelliteUnderspecified) =>
          /\ timers' = timers /\ pc' = pc /\ calIn' = calIn
          /\ calibProfile' = calibProfile
          /\ useCalibration' = useCalibration]_vars

\* the button was pressed on an underspecified custom satellite with a known
\* satellite and band selected in the dropdowns, after an earlier calibration
C21_Witness ==
    /\ clicks = MaxClicks
    /\ CustomSatelliteUnderspecified
    /\ calibStatus = "cannot calibrate"
    /\ calibSatId = "ku_ref" /\ calibBandKey = "Ku"
    /\ calibProfile.calibrated /\ useCalibration


(***************************************************************************)
(* Further properties of generateChannelTimeSeries (checked under SpecTS)  *)
(***************************************************************************)
\* an iteration that stays in the loop has moved t forward: with the loop
\* condition t <= endTime, the scan ends only if t keeps growing
ScanAdvances ==
    (pc = "ts_loop" /\ pc' = "ts_loop" /\ scanned' # scanned) => Gt(t', t)

\* floor((end - start) / (1000 * stepSec)) + 1
FrameCountBound ==
    FloorInt(Div(Sub(tsIn.endTime, tsIn.startTime),
                 Mul(N(1000), tsIn.stepSec))) + 1

\* for stepSec > 0 a call that returns normally has visited exactly the
\* timestamps start + k * stepSec * 1000 <= end
ScanVisitsGrid ==
    (pc = "ts_returned" /\ ~raised /\ Gt(tsIn.stepSec, Zero)) =>
        /\ Len(scanned) = FrameCountBound
        /\ \A k \in 1..Len(scanned) :
              Eq(scanned[k].t,
                 Add(tsIn.startTime, Mul(Mul(N(k - 1), tsIn.stepSec), N(1000))))
        /\ Len(tsResult) <= FrameCountBound
        /\ (\A k \in 1..Len(scanned) : HasPosition(scanned[k].outcome))
               => Len(tsResult) = FrameCountBound

\* C22: for every startTime <= endTime and every stepSec the function accepts
\* (0 and negative values included) the scan loop terminates: each iteration
\* moves t towards endTime; and for stepSec > 0 it visits exactly the
\* timestamps start + k*stepSec*1000 <= end, so it emits at most
\* floor((end - start) / (1000*stepSec)) + 1 frames and exactly that many when
\* every timestamp resolves.
C22_ScanTerminatesOnGrid ==
    /\ [][ScanAdvances]_vars
    /\ []ScanVisitsGrid


\* the scan positions at which the propagator returned a position
ResolvedPositions == {k \in 1..Len(scanned) : HasPosition(scanned[k].outcome)}

\* the values of a frame other than its frameIndex
FrameValues(frame) == [frame EXCEPT !.frameIndex = 0]

\* the frame the same call builds for scan position k in the run in which
\* every earlier timestamp is resolved, so that k - 1 frames precede it
FrameWithAllEarlierResolved(k) ==
    MakeFrame(scanned[k].outcome, scanned[k].t, k - 1, tsIn.stepSec,
              LinkParamsOf(tsIn.linkParams)).frame

\* C23: the values of a frame other than its frameIndex depend only on its
\* timestamp, its geometry and the link parameters: the frame built for a
\* timestamp equals, in every value but frameIndex, the frame built for that
\* timestamp in the run that differs only in having every earlier timestamp
\* resolved, also with fast fading enabled.
C23_FramesIndependentOfEarlierGaps ==
    \A k \in ResolvedPositions :
        LET i == Cardinality({j \in ResolvedPositions : j < k}) + 1
        IN  i <= Len(timeline) =>
                FrameValues(timeline[i])
                    = FrameValues(FrameWithAllEarlierResolved(k))


\* the returned list has one frame for every resolved timestamp of a scan
\* that ran from startTime past endTime
CoversWholeScan ==
    /\ ~raised
    /\ ~Le(t, tsIn.endTime)
    /\ scanned # <<>> /\ Eq(scanned[1].t, tsIn.startTime)
    /\ Len(tsResult) = Cardinality(ResolvedPositions)
    /\ \A k \in ResolvedPositions :
          tsResult[Cardinality({j \in ResolvedPositions : j < k}) + 1].time
              = TimeClip(scanned[k].t)

\* C24: the result is all-or-nothing with respect to exceptions: if an
\* exception is raised while processing any timestamp, the frames already
\* built are discarded and the empty list is returned, so a returned
\* non-empty list always covers every resolvable timestamp from start to end.
C24_AllOrNothing ==
    /\ (raised /\ Len(timeline) >= 1) => (pc = "ts_returned" /\ tsResult = <<>>)
    /\ (pc = "ts_returned" /\ tsResult # <<>>) => CoversWholeScan

\* two frames had been built when the propagator raised, and none is returned
C24_Witness ==
    /\ pc = "ts_returned" /\ raised
    /\ Len(timeline) = 2 /\ Len(scanned) = 3
    /\ tsResult = <<>>


(***************************************************************************)
(* Properties of applyCalibration (checked under SpecApply)                *)
(***************************************************************************)
CalibratedFields ==
    {"correctionFactor", "gasAttenOffset_dB", "scatterPowerOffset_dB", "eirp",
     "tRx"}

\* the result for a calibrated profile: three fields from the profile, eirp
\* and tRx the raw values (60 and 150 where rawParams has none) plus the
\* offsets, and every other field that of rawParams
CalibratedResult ==
    /\ ~apSame
    /\ apOut.correctionFactor = apProfile.params.correctionFactor
    /\ apOut.gasAttenOffset_dB = apProfile.params.gasAttenOffset_dB
    /\ apOut.scatterPowerOffset_dB = apProfile.params.scatterPowerOffset_dB
    /\ apOut.eirp = Add(Default(apRaw.eirp, N(60)),
                        apProfile.params.eirpOffset_dB)
    /\ apOut.tRx = Add(Default(apRaw.tRx, N(150)),
                       apProfile.params.systemNoiseOffset_K)
    /\ \A f \in DOMAIN apRaw \ CalibratedFields : apOut[f] = apRaw[f]

\* C25: applyCalibration returns the rawParams object itself, unchanged, when
\* the profile is null or has calibrated = false; with a calibrated profile
\* it returns a new object whose correctionFactor, gasAttenOffset_dB and
\* scatterPowerOffset_dB come from the profile and whose eirp and tRx are the
\* raw values (defaults 60 and 150) plus the profile offsets; in neither case
\* are rawParams or the profile modified.
C25_ApplyCalibrationResult ==
    /\ [](pc = "ap_done" =>
            IF apProfile.calibrated THEN CalibratedResult
            ELSE apSame /\ apOut = apRaw)
    /\ [][apRaw' = apRaw /\ apProfile' = apProfile]_vars


(***************************************************************************)
(* Further properties of calibrateModel.                                   *)
(***************************************************************************)
\* every cost the loop computed is a finite number
FiniteResiduals == \A i \in 1..Len(costLog) : IsFinite(costLog[i])

\* the residuals at the current parameters with another scatter offset
ResidualsWithScatterOffset(x) ==
    computeResiduals(GivenMeasurements, EffectiveParams(calIn),
                     [calibParams EXCEPT !.scatterPowerOffset_dB = x])

\* the link of the calibration, seen from 30 degrees in a city, as the
\* calibrated parameter object handed to computeCIR
CalibratedCIRInput(profile) ==
    applyCalibration([EffectiveParams(calIn) EXCEPT
                         !.freq = OrElse(EffectiveParams(calIn).freq, N(12)),
                         !.elevation = N(30), !.slantRange = N(1200),
                         !.env = "urban"],
                     profile)

NoMetricPopulated(measurements) ==
    \A i \in 1..Len(measurements) :
        /\ ~NotNull(measurements[i].measuredCN0_dB)
        /\ ~NotNull(measurements[i].measuredRSSI_dBm)
        /\ ~NotNull(measurements[i].measuredXPD_dB)
        /\ ~NotNull(measurements[i].measuredAttenuation_dB)
        /\ ~NotNull(measurements[i].measuredLoss)

\* C27: for a non-empty measurement list without any metric populated, the
\* loop runs exactly one iteration (one cost computed, left by break) and the
\* returned profile has calibrated = true, dataPointCount = the list length,
\* residualRMS = 0 and the 5 parameters at their defaults.
C27_EmptyResidualsReturnDefaults ==
    (pc = "cal_returned" /\ ~NoMeasurements(calIn.measurements)
         /\ NoMetricPopulated(GivenMeasurements)) =>
        /\ Len(costLog) = 1
        /\ iter = 0
        /\ calResult.calibrated
        /\ calResult.dataPointCount = Len(GivenMeasurements)
        /\ calResult.residualRMS = Zero
        /\ calResult.params = createDefaultCalibration.params

\* a two-point list without metrics went through the fit
C27_Witness ==
    /\ pc = "cal_returned"
    /\ Len(GivenMeasurements) = 2
    /\ NoMetricPopulated(GivenMeasurements)
    /\ Len(costLog) = 1
    /\ calResult.calibrated


(***************************************************************************)
(* Properties of predictPasses (checked under SpecPasses).                 *)
(***************************************************************************)
\* aos <= tca <= los for every pass of the list, each los not later than
\* the aos of the next pass
Chronological(list) ==
    /\ \A i \in 1..Len(list) :
           Le(list[i].aos, list[i].tca) /\ Le(list[i].tca, list[i].los)
    /\ \A i \in 1..(Len(list) - 1) : Le(list[i].los, list[i + 1].aos)

\* C28: for every elevation profile, unresolvable samples included, every
\* pass returned by predictPasses has aos <= tca <= los, and the passes are
\* in chronological order without overlap (los of each <= aos of the next).
C28_PassesOrderedAndDisjoint ==
    /\ Chronological(passes)
    /\ (pc \in {"pp_returned", "pp_caught"}) => Chronological(ppResult)

\* two passes returned from one scan
C28_Witness == pc = "pp_returned" /\ Len(ppResult) = 2


\* the one-minute samples of the scan, by their position in the log
ResolvedAt(i) == ~Eq(coarse[i].elev, Unresolved)
AboveAt(i) == ResolvedAt(i) /\ Gt(coarse[i].elev, ppIn.minElev)
ResolvedSamples == {i \in 1..Len(coarse) : ResolvedAt(i)}

\* a maximal run of resolved samples above minElev starts at a
StartsRun(a) ==
    /\ a \in ResolvedSamples
    /\ AboveAt(a)
    /\ \A b \in ResolvedSamples :
           (b < a /\ \A c \in ResolvedSamples : ~(b < c /\ c < a)) => ~AboveAt(b)

\* the resolved samples at or below minElev after a
BelowAfter(a) == {l \in ResolvedSamples : l > a /\ ~AboveAt(l)}

\* the run starting at a is followed by such a sample inside the window
RunEnds(a) == BelowAfter(a) # {}
RunEnd(a) == CHOOSE l \in BelowAfter(a) : \A m \in BelowAfter(a) : l <= m
RunOf(a) == {i \in ResolvedSamples : a <= i /\ i < RunEnd(a)}

\* the highest sample of the run, the earliest one among equals
RunPeak(a) ==
    CHOOSE i \in RunOf(a) :
        /\ \A j \in RunOf(a) : Ge(coarse[i].elev, coarse[j].elev)
        /\ \A j \in RunOf(a) : j < i => Lt(coarse[j].elev, coarse[i].elev)

\* the pass of the run: aos and los where the refinement loops stopped
RunPass(a) ==
    LET aos == FineTime(SampleTime(a - 1), coarse[a].hit)
        los == FineTime(SampleTime(RunEnd(a) - 1), coarse[RunEnd(a)].hit)
    IN  [aos |-> aos, tca |-> SampleTime(RunPeak(a) - 1), los |-> los,
         maxElev |-> coarse[RunPeak(a)].elev,
         durationSec |-> Div(Sub(los, aos), N(1000))]

RunQualifies(a) ==
    /\ StartsRun(a)
    /\ RunEnds(a)
    /\ Ge(RunPass(a).maxElev, N(1))
    /\ Ge(Sub(RunPass(a).los, RunPass(a).aos), N(30000))

RECURSIVE PassesOfRuns(_)
PassesOfRuns(a) ==
    IF a > Len(coarse) THEN <<>>
    ELSE (IF RunQualifies(a) THEN <<RunPass(a)>> ELSE <<>>)
         \o PassesOfRuns(a + 1)

C30_ZeroTecGivesNoIonoTap ==
    (pc = "lb_done" /\ Gt(lbIn.freq, Zero) /\ Eq(lbIn.tec, Zero)) =>
        /\ cirDispersionNs(lbIn) = Zero
        /\ \A i \in 1..Len(lbCir.taps) :
               lbCir.taps[i].label # "ionospheric dispersion"

=============================================================================
